---------------------------- MODULE Spec2Model ----------------------------
(***************************************************************************)
(* Model of the Antik IMAP response parser (CMailIMAPParse.cpp).           *)
(*                                                                         *)
(* Text is modelled byte by byte: a std::string is a string whose          *)
(* characters are its bytes, and positions are 0-based as in C++.  One     *)
(* behaviour of Spec is one call of CMailIMAPParse::parseResponse on a     *)
(* response blob; each step reads one line of the blob (or, inside a FETCH *)
(* message, handles one item).                                             *)
(***************************************************************************)
EXTENDS Integers, Sequences, FiniteSets, TLC

(***************************************************************************)
(* Bounds of the model.                                                    *)
(***************************************************************************)
\* Largest number of response chunks (lines, or FETCH messages with their
\* literals) that follow the echoed command line in a blob.
MaxChunks == 2

(***************************************************************************)
(* std::string primitives.                                                 *)
(***************************************************************************)
\* The byte '\0', which no text of the model contains, is written as \f.
kNUL == "\f"

\* std::string::npos after conversion to int; size_t arithmetic on it wraps,
\* so npos + n + 1 is n, which is what -1 + n + 1 gives.
NPOS == -1

\* lineStr[i]; reading at size() yields the terminating NUL.
At(s, i) == IF i >= 0 /\ i < Len(s) THEN SubSeq(s, i + 1, i + 1) ELSE kNUL

\* lineStr.substr(pos, count) for pos <= size(); a count that is negative as
\* an int is a huge size_t and means "to the end".
Substr(s, pos, count) ==
    LET last == IF count < 0 \/ pos + count > Len(s) THEN Len(s) ELSE pos + count
    IN  SubSeq(s, pos + 1, last)

\* lineStr.substr(pos) throws std::out_of_range when pos > size().
SubstrThrows(s, pos) == pos < 0 \/ pos > Len(s)

SubstrFrom(s, pos) == Substr(s, pos, -1)

\* lineStr.find(sub, from)
RECURSIVE ScanFor(_, _, _)
ScanFor(s, sub, i) ==
    IF i + Len(sub) > Len(s) THEN NPOS
    ELSE IF SubSeq(s, i + 1, i + Len(sub)) = sub THEN i
    ELSE ScanFor(s, sub, i + 1)

Find(s, sub, from) == IF from < 0 THEN NPOS ELSE ScanFor(s, sub, from)

\* lineStr.find_first_of(ch, from); a negative from is npos as a size_t.
RECURSIVE ScanOf(_, _, _)
ScanOf(s, ch, i) ==
    IF i >= Len(s) THEN NPOS ELSE IF SubSeq(s, i + 1, i + 1) = ch THEN i ELSE ScanOf(s, ch, i + 1)

FindFirstOf(s, ch, from) == IF from < 0 THEN NPOS ELSE ScanOf(s, ch, from)

\* lineStr.find_first_not_of(ch, from)
RECURSIVE ScanNotOf(_, _, _)
ScanNotOf(s, ch, i) ==
    IF i >= Len(s) THEN NPOS ELSE IF SubSeq(s, i + 1, i + 1) # ch THEN i ELSE ScanNotOf(s, ch, i + 1)

FindFirstNotOf(s, ch, from) == IF from < 0 THEN NPOS ELSE ScanNotOf(s, ch, from)

\* lineStr.find_last_of(ch)
RECURSIVE ScanBack(_, _, _)
ScanBack(s, ch, i) ==
    IF i < 0 THEN NPOS ELSE IF SubSeq(s, i + 1, i + 1) = ch THEN i ELSE ScanBack(s, ch, i - 1)

FindLastOf(s, ch) == ScanBack(s, ch, Len(s) - 1)

\* lineStr.pop_back() (callers guard the empty string, where it is undefined)
PopBack(s) == SubSeq(s, 1, Len(s) - 1)

\* std::toupper
ToUpper(c) ==
    CASE c = "a" -> "A" [] c = "b" -> "B" [] c = "c" -> "C" [] c = "d" -> "D"
      [] c = "e" -> "E" [] c = "f" -> "F" [] c = "g" -> "G" [] c = "h" -> "H"
      [] c = "i" -> "I" [] c = "j" -> "J" [] c = "k" -> "K" [] c = "l" -> "L"
      [] c = "m" -> "M" [] c = "n" -> "N" [] c = "o" -> "O" [] c = "p" -> "P"
      [] c = "q" -> "Q" [] c = "r" -> "R" [] c = "s" -> "S" [] c = "t" -> "T"
      [] c = "u" -> "U" [] c = "v" -> "V" [] c = "w" -> "W" [] c = "x" -> "X"
      [] c = "y" -> "Y" [] c = "z" -> "Z" [] OTHER -> c

kDigits == {"0", "1", "2", "3", "4", "5", "6", "7", "8", "9"}

\* std::isdigit
IsDigit(c) == c \in kDigits

DigitVal(c) == CHOOSE d \in 0..9 : SubSeq("0123456789", d + 1, d + 1) = c

\* The run of decimal digits of s that starts at position i.
RECURSIVE DigitsEnd(_, _)
DigitsEnd(s, j) == IF IsDigit(At(s, j)) THEN DigitsEnd(s, j + 1) ELSE j

DigitRun(s, i) == Substr(s, i, DigitsEnd(s, i) - i)

RECURSIVE DecValue(_)
DecValue(d) == IF Len(d) = 0 THEN 0 ELSE 10 * DecValue(PopBack(d)) + DigitVal(At(d, Len(d) - 1))

\* std::strtoull(s, nullptr, 10): leading blanks, then digits; 0 without digits.
StrToULL(s) ==
    LET start == FindFirstNotOf(s, " ", 0)
    IN  IF start = NPOS THEN 0 ELSE DecValue(DigitRun(s, start))

(***************************************************************************)
(* Protocol strings of CMailIMAP.hpp.                                      *)
(***************************************************************************)
kEOLStr == "\r\n"

kUntaggedStr == "*"

kOKStr == "OK"

kNOStr == "NO"

kBADStr == "BAD"

kBYEStr == "BYE"

kUIDStr == "UID"

kFETCHStr == "FETCH"

kSPACE == " "

kFLAGSStr == "FLAGS"

kPERMANENTFLAGSStr == "PERMANENTFLAGS"

kUIDVALIDITYStr == "UIDVALIDITY"

kUIDNEXTStr == "UIDNEXT"

kHIGHESTMODSEQStr == "HIGHESTMODSEQ"

kCAPABILITYStr == "CAPABILITY"

kUNSEENStr == "UNSEEN"

kEXISTSStr == "EXISTS"

kRECENTStr == "RECENT"

kSEARCHStr == "SEARCH"

kLISTStr == "LIST"

kLSUBStr == "LSUB"

kSTATUSStr == "STATUS"

kEXPUNGEStr == "EXPUNGE"

kBODYSTRUCTUREStr == "BODYSTRUCTURE"

kENVELOPEStr == "ENVELOPE"

kBODYStr == "BODY"

kINTERNALDATEStr == "INTERNALDATE"

kRFC822SIZEStr == "RFC822.SIZE"

kRFC822HEADERStr == "RFC822.HEADER"

kRFC822Str == "RFC822"

(***************************************************************************)
(* String helpers of CMailIMAPParse.                                       *)
(***************************************************************************)
RECURSIVE stringToUpper(_)
stringToUpper(lineStr) ==
    IF Len(lineStr) = 0 THEN ""
    ELSE stringToUpper(PopBack(lineStr)) \o ToUpper(At(lineStr, Len(lineStr) - 1))

\* Case-insensitive test that lineStr starts with compareStr.
stringEqual(lineStr, compareStr) ==
    /\ Len(lineStr) >= Len(compareStr)
    /\ \A i \in 0..(Len(compareStr) - 1) : ToUpper(At(compareStr, i)) = ToUpper(At(lineStr, i))

stringBetween(lineStr, first, last) ==
    LET firstDel == FindFirstOf(lineStr, first, 0)
        lastDel == FindFirstOf(lineStr, last, firstDel + 1)
    IN  Substr(lineStr, firstDel + 1, lastDel - firstDel - 1)

\* startNumber is npos when the line has nothing but blanks after its first
\* character; substr(npos, ...) then throws std::out_of_range.
stringUntaggedNumberThrows(lineStr) == FindFirstNotOf(lineStr, " ", 1) = NPOS

stringUntaggedNumber(lineStr) ==
    LET startNumber == FindFirstNotOf(lineStr, " ", 1)
        endNumber == FindFirstOf(lineStr, " ", startNumber)
    IN  Substr(lineStr, startNumber, endNumber - startNumber)

stringTag(lineStr) == Substr(lineStr, 0, FindFirstOf(lineStr, " ", 0))

\* A faulty stringCommand that does not skip the UID prefix: the command of
\* "A1 UID FETCH ..." is then "UID".  C10_UIDDispatch tells it from
\* stringCommand.
stringCommandNoUID(lineStr) ==
    LET start1 == FindFirstOf(lineStr, " ", 0) + 1
        end1 == FindFirstOf(lineStr, " ", start1)
    IN  stringToUpper(Substr(lineStr, start1, end1 - start1))

stringCommand(lineStr) ==
    LET start1 == FindFirstOf(lineStr, " ", 0) + 1
        end1 == FindFirstOf(lineStr, " ", start1)
        isUID == stringEqual(Substr(lineStr, start1, end1 - start1), kUIDStr)
        start2 == IF isUID THEN FindFirstOf(lineStr, " ", start1) + 1 ELSE start1
        end2 == IF isUID THEN FindFirstOf(lineStr, " ", start2) ELSE end1
    IN  stringToUpper(Substr(lineStr, start2, end2 - start2))

\* Without a '(' startPosition is npos: the scan reads out of bounds and
\* substr(npos, ...) throws std::out_of_range.
stringListThrows(lineStr) == FindFirstOf(lineStr, "(", 0) = NPOS

RECURSIVE ListScan(_, _, _, _)
ListScan(lineStr, currentIndex, bracketCount, lineLength) ==
    LET c == At(lineStr, currentIndex)
        count == bracketCount + (IF c = "(" THEN 1 ELSE 0) - (IF c = ")" THEN 1 ELSE 0)
    IN  IF count # 0 /\ lineLength - 1 > 0
        THEN ListScan(lineStr, currentIndex + 1, count, lineLength - 1)
        ELSE currentIndex + 1

stringList(lineStr) ==
    LET startPosition == FindFirstOf(lineStr, "(", 0)
        currentIndex == ListScan(lineStr, startPosition, 0, Len(lineStr) - startPosition)
    IN  Substr(lineStr, startPosition, currentIndex - startPosition)


(***************************************************************************)
(* std::istringstream over the response blob: the read position and the    *)
(* eofbit and failbit of the stream.                                       *)
(***************************************************************************)
NewStream == [pos |-> 0, eof |-> FALSE, fail |-> FALSE]

\* std::getline(stream, lineStr, '\n'): a stream that is not good() leaves
\* lineStr as it was (cur); otherwise lineStr is erased and filled up to the
\* next '\n', which is consumed and not stored.
GetLine(data, st, cur) ==
    IF st.eof \/ st.fail
    THEN [stream |-> [st EXCEPT !.fail = TRUE], line |-> cur, ok |-> FALSE]
    ELSE LET nl == FindFirstOf(data, "\n", st.pos)
         IN  IF nl # NPOS
             THEN [stream |-> [st EXCEPT !.pos = nl + 1],
                   line |-> Substr(data, st.pos, nl - st.pos), ok |-> TRUE]
             ELSE [stream |-> [pos |-> Len(data), eof |-> TRUE, fail |-> st.pos = Len(data)],
                   line |-> SubstrFrom(data, st.pos), ok |-> st.pos < Len(data)]

RECURSIVE Pad(_)
Pad(k) == IF k <= 0 THEN "" ELSE kNUL \o Pad(k - 1)

\* octectBuffer.resize(n); stream.read(&octectBuffer[0], n): the buffer has
\* n bytes whatever the stream delivers; bytes that are not delivered stay NUL.
Read(data, st, n) ==
    LET avail == Len(data) - st.pos
        pad(k) == Pad(k)
    IN  IF st.eof \/ st.fail
        THEN [stream |-> [st EXCEPT !.fail = TRUE], buffer |-> pad(n)]
        ELSE IF n <= avail
        THEN [stream |-> [st EXCEPT !.pos = st.pos + n], buffer |-> Substr(data, st.pos, n)]
        ELSE [stream |-> [pos |-> Len(data), eof |-> TRUE, fail |-> TRUE],
              buffer |-> SubstrFrom(data, st.pos) \o pad(n - avail)]

\* stream.seekg(off, std::ios_base::end): eofbit is cleared, and unless the
\* stream has failed the position becomes size + off; a position outside the
\* buffer sets failbit.
SeekEnd(data, st, off) ==
    LET target == Len(data) + off
    IN  IF st.fail THEN [st EXCEPT !.eof = FALSE]
        ELSE IF target < 0 \/ target > Len(data)
        THEN [st EXCEPT !.eof = FALSE, !.fail = TRUE]
        ELSE [st EXCEPT !.eof = FALSE, !.pos = target]

(***************************************************************************)
(* Response status handling.                                               *)
(***************************************************************************)
\* The value of BaseResponse::status that no line of the blob has assigned.
RespCodeNONE == "NONE"

\* A faulty comparison that accepts the completion of any tag, comparing the
\* line with its own first token.  C5_UnrecognisedLineFails tells it from
\* IsTaggedOK.
IsTaggedOKAnyTag(tagStr, lineStr) == stringEqual(lineStr, stringTag(lineStr) \o kSPACE \o kOKStr)

IsTaggedOK(tagStr, lineStr) == stringEqual(lineStr, tagStr \o kSPACE \o kOKStr)

IsTaggedNO(tagStr, lineStr) == stringEqual(lineStr, tagStr \o kSPACE \o kNOStr)

IsTaggedBAD(tagStr, lineStr) == stringEqual(lineStr, tagStr \o kSPACE \o kBADStr)

IsUntaggedBYE(lineStr) == stringEqual(lineStr, kUntaggedStr \o kSPACE \o kBYEStr)

IsUntaggedNOorBAD(lineStr) ==
    \/ stringEqual(lineStr, kUntaggedStr \o kSPACE \o kNOStr)
    \/ stringEqual(lineStr, kUntaggedStr \o kSPACE \o kBADStr)

\* A faulty parseStatus whose tagged OK branch starts the base fields afresh,
\* clearing bBYESent.  C18_ByeSeenMonotonic tells it from parseStatus.
parseStatusClearsBye(tag, line, sr) ==
    IF IsTaggedOK(tag, line)
    THEN [status |-> "OK", errorMessageStr |-> sr.errorMessageStr,
          bBYESent |-> FALSE, cerr |-> <<>>, thrown |-> FALSE]
    ELSE IF IsTaggedNO(tag, line)
    THEN [status |-> "NO", errorMessageStr |-> line,
          bBYESent |-> sr.bBYESent, cerr |-> <<>>, thrown |-> FALSE]
    ELSE IF IsTaggedBAD(tag, line)
    THEN [status |-> "BAD", errorMessageStr |-> line,
          bBYESent |-> sr.bBYESent, cerr |-> <<>>, thrown |-> FALSE]
    ELSE IF IsUntaggedBYE(line)
    THEN [status |-> sr.status, errorMessageStr |-> line,
          bBYESent |-> TRUE, cerr |-> <<>>, thrown |-> FALSE]
    ELSE IF IsUntaggedNOorBAD(line)
    THEN [status |-> sr.status, errorMessageStr |-> sr.errorMessageStr,
          bBYESent |-> sr.bBYESent, cerr |-> <<line>>, thrown |-> FALSE]
    ELSE [status |-> sr.status, errorMessageStr |-> sr.errorMessageStr,
          bBYESent |-> sr.bBYESent, cerr |-> <<>>, thrown |-> TRUE]

\* parseStatus on a copy of the response's base fields: the new base fields,
\* what is written to std::cerr, and whether the call throws.
parseStatus(tagStr, lineStr, sr) ==
    IF IsTaggedOK(tagStr, lineStr)
    THEN [status |-> "OK", errorMessageStr |-> sr.errorMessageStr,
          bBYESent |-> sr.bBYESent, cerr |-> <<>>, thrown |-> FALSE]
    ELSE IF IsTaggedNO(tagStr, lineStr)
    THEN [status |-> "NO", errorMessageStr |-> lineStr,
          bBYESent |-> sr.bBYESent, cerr |-> <<>>, thrown |-> FALSE]
    ELSE IF IsTaggedBAD(tagStr, lineStr)
    THEN [status |-> "BAD", errorMessageStr |-> lineStr,
          bBYESent |-> sr.bBYESent, cerr |-> <<>>, thrown |-> FALSE]
    ELSE IF IsUntaggedBYE(lineStr)
    THEN [status |-> sr.status, errorMessageStr |-> lineStr,
          bBYESent |-> TRUE, cerr |-> <<>>, thrown |-> FALSE]
    ELSE IF IsUntaggedNOorBAD(lineStr)
    THEN [status |-> sr.status, errorMessageStr |-> sr.errorMessageStr,
          bBYESent |-> sr.bBYESent, cerr |-> <<lineStr>>, thrown |-> FALSE]
    ELSE [status |-> sr.status, errorMessageStr |-> sr.errorMessageStr,
          bBYESent |-> sr.bBYESent, cerr |-> <<>>, thrown |-> TRUE]

(***************************************************************************)
(* Command codes and the two static tables of CMailIMAPParse.              *)
(***************************************************************************)
\* loadStringToCodeMap: command string -> command code (a code is named by
\* its command string).
CommandStrings ==
    {"STARTTLS", "AUTHENTICATE", "LOGIN", "CAPABILITY", "SELECT", "EXAMINE", "CREATE",
     "DELETE", "RENAME", "SUBSCRIBE", "UNSUBSCRIBE", "LIST", "LSUB", "STATUS", "APPEND",
     "CHECK", "CLOSE", "EXPUNGE", "SEARCH", "FETCH", "STORE", "COPY", "UID", "NOOP",
     "LOGOUT", "IDLE"}

loadStringToCodeMap == [c \in CommandStrings |-> c]

\* The code a std::unordered_map<std::string, Commands> yields for a key it
\* does not hold: operator[] inserts a value-initialised Commands, the
\* enumerator of value 0.
DefaultCommandCode == "STARTTLS"

\* The initial parseCommmandMap: command code -> parse routine.
InitialParseCommandMap ==
    [c \in {"LIST", "LSUB", "SEARCH", "SELECT", "EXAMINE", "STATUS", "EXPUNGE", "STORE",
            "CAPABILITY", "FETCH", "NOOP", "IDLE", "LOGOUT"} |->
        CASE c \in {"LIST", "LSUB"} -> "parseLIST"
          [] c \in {"SELECT", "EXAMINE"} -> "parseSELECT"
          [] c \in {"NOOP", "IDLE"} -> "parseNOOP"
          [] OTHER -> "parse" \o c]

EmptyMap == [x \in {} |-> x]

\* m[k] of a std::unordered_map: the map after the access (a missing key is
\* inserted with the value-initialised mapped value).
MapIndex(m, k, dflt) == IF k \in DOMAIN m THEN m ELSE m @@ (k :> dflt)

\* m.insert({k, v}): an existing key keeps its value.
MapInsert(m, k, v) == IF k \in DOMAIN m THEN m ELSE m @@ (k :> v)


(***************************************************************************)
(* Responses.  One record stands for every response type: the base fields  *)
(* of BaseResponse and the payload fields of the derived responses, those  *)
(* a routine does not have staying empty.                                  *)
(***************************************************************************)
NewResponse(commandCode) ==
    [command |-> commandCode, status |-> RespCodeNONE, errorMessageStr |-> "",
     bBYESent |-> FALSE, rawResponse |-> <<>>, responseMap |-> EmptyMap,
     mailBoxNameStr |-> "", mailBoxAccessStr |-> "", indexes |-> <<>>,
     mailBoxList |-> <<>>, exists |-> <<>>, expunged |-> <<>>, storeList |-> <<>>,
     capabilitiesStr |-> "", fetchList |-> <<>>]

\* What handling one line does: the response after it, the lines written to
\* std::cerr, the exception thrown ("" when none), the line its message
\* carries, and whether the routine took the line as payload of its command
\* (TRUE) or handed it to parseStatus (FALSE).
Outcome(r, cerrLines, thrownWhat) ==
    [resp |-> r, cerr |-> cerrLines, thrown |-> thrownWhat, thrownLine |-> "", payload |-> TRUE]

\* BaseResponse statusResponse{...}; parseStatus(tag, line, statusResponse);
\* and the copy of the three base fields back into the response.
StatusStep(r, tagStr, lineStr) ==
    LET sr == parseStatus(tagStr, lineStr, r)
    IN  IF sr.thrown
        THEN [resp |-> r, cerr |-> <<>>, thrown |-> "IMAP command", thrownLine |-> lineStr,
              payload |-> FALSE]
        ELSE [resp |-> [r EXCEPT !.status = sr.status, !.errorMessageStr = sr.errorMessageStr,
                                 !.bBYESent = sr.bBYESent],
              cerr |-> sr.cerr, thrown |-> "", thrownLine |-> "", payload |-> FALSE]

Untagged(tokenStr) == kUntaggedStr \o kSPACE \o tokenStr

\* Body of the line loop of parseDefault.
DefaultLine(r, tagStr, lineStr) == StatusStep(r, tagStr, lineStr)

\* Body of the line loop of parseNOOP (NOOP and IDLE).
NOOPLine(r, tagStr, lineStr) ==
    IF Find(lineStr, kUntaggedStr, 0) = 0
    THEN Outcome([r EXCEPT !.rawResponse = Append(@, lineStr)], <<>>, "")
    ELSE StatusStep(r, tagStr, lineStr)

\* Body of the line loop of parseLOGOUT.
LOGOUTLine(r, tagStr, lineStr) ==
    IF stringEqual(lineStr, Untagged(kBYEStr))
    THEN Outcome([r EXCEPT !.rawResponse = Append(@, lineStr), !.bBYESent = TRUE], <<>>, "")
    ELSE StatusStep(r, tagStr, lineStr)

\* Body of the line loop of parseCAPABILITY.
CAPABILITYLine(r, tagStr, lineStr) ==
    LET start == Len(Untagged(kCAPABILITYStr)) + 1
    IN  IF stringEqual(lineStr, Untagged(kCAPABILITYStr))
        THEN IF SubstrThrows(lineStr, start)
             THEN Outcome(r, <<>>, "out_of_range")
             ELSE Outcome([r EXCEPT !.capabilitiesStr = SubstrFrom(lineStr, start)], <<>>, "")
        ELSE StatusStep(r, tagStr, lineStr)

\* Body of the line loop of parseEXPUNGE.
EXPUNGELine(r, tagStr, lineStr) ==
    IF Find(lineStr, kEXISTSStr, 0) # NPOS
    THEN IF stringUntaggedNumberThrows(lineStr)
         THEN Outcome(r, <<>>, "out_of_range")
         ELSE Outcome([r EXCEPT !.exists = Append(@, StrToULL(stringUntaggedNumber(lineStr)))],
                      <<>>, "")
    ELSE IF Find(lineStr, kEXPUNGEStr, 0) # NPOS
    THEN IF stringUntaggedNumberThrows(lineStr)
         THEN Outcome(r, <<>>, "out_of_range")
         ELSE Outcome([r EXCEPT !.expunged = Append(@, StrToULL(stringUntaggedNumber(lineStr)))],
                      <<>>, "")
    ELSE StatusStep(r, tagStr, lineStr)

\* Body of the line loop of parseSTORE.
STORELine(r, tagStr, lineStr) ==
    IF Find(lineStr, kFETCHStr, 0) # NPOS
    THEN IF \/ stringUntaggedNumberThrows(lineStr)
            \/ stringListThrows(lineStr)
            \/ stringListThrows(SubstrFrom(stringList(lineStr), 1))
         THEN Outcome(r, <<>>, "out_of_range")
         ELSE Outcome([r EXCEPT !.storeList = Append(@,
                          [index |-> StrToULL(stringUntaggedNumber(lineStr)),
                           flagsListStr |-> stringList(SubstrFrom(stringList(lineStr), 1))])],
                      <<>>, "")
    ELSE StatusStep(r, tagStr, lineStr)

\* The values the uninitialised local "uint64_t index" of parseSEARCH can
\* hold when an extraction leaves it unassigned.
IndeterminateIndexes == {0, 99}

\* while (listStream.good()) { uint64_t index; listStream >> index;
\* indexes.push_back(index); } over the text s from position pos.  An
\* extraction that meets the end of the text while skipping blanks fails
\* before index is assigned, and the push_back stores its indeterminate value
\* (garbage); one that finds no digit stores 0 and fails; one that reads up
\* to the end of the text sets eofbit.  Each of these ends the loop.
RECURSIVE ReadIndexes(_, _, _, _)
ReadIndexes(s, pos, acc, garbage) ==
    LET p == FindFirstNotOf(s, " ", pos)
        digits == DigitRun(s, p)
    IN  IF p = NPOS THEN Append(acc, garbage)
        ELSE IF Len(digits) = 0 THEN Append(acc, 0)
        ELSE IF p + Len(digits) = Len(s) THEN Append(acc, DecValue(digits))
        ELSE ReadIndexes(s, p + Len(digits), Append(acc, DecValue(digits)), garbage)

\* Body of the line loop of parseSEARCH.
SEARCHLine(r, tagStr, lineStr, garbage) ==
    IF stringEqual(lineStr, Untagged(kSEARCHStr))
    THEN Outcome([r EXCEPT !.indexes =
                     ReadIndexes(SubstrFrom(lineStr, Len(Untagged(kSEARCHStr))), 0, @, garbage)],
                 <<>>, "")
    ELSE StatusStep(r, tagStr, lineStr)

\* The token operator>>(std::string) extracts from s at position pos: its
\* start (NPOS when only blanks are left) and the position after it.
TokenStart(s, pos) == FindFirstNotOf(s, " ", pos)

TokenEnd(s, start) ==
    LET sp == FindFirstOf(s, " ", start) IN IF sp = NPOS THEN Len(s) ELSE sp

\* while (listStream.good()) { listStream >> itemStr >> valueStr; insert }
\* A failed extraction leaves its string as it was, and the pair is inserted
\* all the same.
RECURSIVE ReadPairs(_, _, _, _, _)
ReadPairs(s, pos, itemStr, valueStr, map) ==
    LET p == TokenStart(s, pos)
        pe == TokenEnd(s, p)
        item == Substr(s, p, pe - p)
        q == TokenStart(s, pe)
        qe == TokenEnd(s, q)
        value == Substr(s, q, qe - q)
    IN  IF p = NPOS THEN MapInsert(map, itemStr, valueStr)
        ELSE IF pe = Len(s) \/ q = NPOS THEN MapInsert(map, item, valueStr)
        ELSE IF qe = Len(s) THEN MapInsert(map, item, value)
        ELSE ReadPairs(s, qe, item, value, MapInsert(map, item, value))

\* Body of the line loop of parseSTATUS.
STATUSLine(r, tagStr, lineStr) ==
    LET start == Len(Untagged(kSTATUSStr)) + 1
        rest == SubstrFrom(lineStr, start)
    IN  IF stringEqual(lineStr, Untagged(kSTATUSStr))
        THEN IF SubstrThrows(lineStr, start)
             THEN Outcome(r, <<>>, "out_of_range")
             ELSE Outcome([r EXCEPT
                      !.mailBoxNameStr = Substr(rest, 0, FindFirstOf(rest, " ", 0)),
                      !.responseMap = ReadPairs(stringBetween(rest, "(", ")"), 0, "", "", @)],
                      <<>>, "")
        ELSE StatusStep(r, tagStr, lineStr)

\* The mailbox name parseLIST stores for a line.
ListMailBoxName(lineStr) ==
    IF At(lineStr, Len(lineStr) - 1) # "\""
    THEN SubstrFrom(lineStr, FindLastOf(lineStr, " "))
    ELSE SubstrFrom(PopBack(lineStr), FindLastOf(PopBack(lineStr), "\"")) \o "\""

\* Body of the line loop of parseLIST (LIST and LSUB).
LISTLine(r, tagStr, lineStr) ==
    IF stringEqual(lineStr, Untagged(kLISTStr)) \/ stringEqual(lineStr, Untagged(kLSUBStr))
    THEN IF \/ stringListThrows(lineStr)
            \/ At(lineStr, Len(lineStr) - 1) # "\"" /\ FindLastOf(lineStr, " ") = NPOS
            \/ At(lineStr, Len(lineStr) - 1) = "\"" /\ FindLastOf(PopBack(lineStr), "\"") = NPOS
         THEN Outcome(r, <<>>, "out_of_range")
         ELSE Outcome([r EXCEPT !.mailBoxList = Append(@,
                          [attributesStr |-> stringList(lineStr),
                           hierDel |-> At(stringBetween(lineStr, "\"", "\""), 0),
                           mailBoxNameStr |-> ListMailBoxName(lineStr)])],
                      <<>>, "")
    ELSE StatusStep(r, tagStr, lineStr)

\* The mailbox name parseSELECT takes from the command line.
SelectMailBoxName(commandLineStr) ==
    LET name == SubstrFrom(commandLineStr, FindLastOf(commandLineStr, " ") + 1)
        noBack == IF At(name, Len(name) - 1) = "\"" THEN PopBack(name) ELSE name
    IN  IF At(noBack, 0) = "\"" THEN SubstrFrom(noBack, 1) ELSE noBack

\* Body of the line loop of parseSELECT (SELECT and EXAMINE): an "* OK ["
\* line is first cut down to the text between its brackets.
SELECTLine(r, tagStr, rawLineStr) ==
    LET lineStr == IF stringEqual(rawLineStr, Untagged(kOKStr) \o " [")
                   THEN stringBetween(rawLineStr, "[", "]") ELSE rawLineStr
        put(k, v) == Outcome([r EXCEPT !.responseMap = MapInsert(@, k, v)], <<>>, "")
        capStart == Len(Untagged(kCAPABILITYStr)) + 1
        st == StatusStep(r, tagStr, lineStr)
    IN  IF stringEqual(lineStr, Untagged(kFLAGSStr))
        THEN IF stringListThrows(lineStr) THEN Outcome(r, <<>>, "out_of_range")
             ELSE put(kFLAGSStr, stringList(lineStr))
        ELSE IF stringEqual(lineStr, kPERMANENTFLAGSStr)
        THEN IF stringListThrows(lineStr) THEN Outcome(r, <<>>, "out_of_range")
             ELSE put(kPERMANENTFLAGSStr, stringList(lineStr))
        ELSE IF stringEqual(lineStr, kUIDVALIDITYStr)
        THEN put(kUIDVALIDITYStr, stringBetween(lineStr, " ", "]"))
        ELSE IF stringEqual(lineStr, kUIDNEXTStr)
        THEN put(kUIDNEXTStr, stringBetween(lineStr, " ", "]"))
        ELSE IF stringEqual(lineStr, kHIGHESTMODSEQStr)
        THEN put(kHIGHESTMODSEQStr, stringBetween(lineStr, " ", "]"))
        ELSE IF stringEqual(lineStr, Untagged(kCAPABILITYStr))
        THEN IF SubstrThrows(lineStr, capStart) THEN Outcome(r, <<>>, "out_of_range")
             ELSE put(kCAPABILITYStr, SubstrFrom(lineStr, capStart))
        ELSE IF Find(lineStr, kUNSEENStr, 0) = 0
        THEN put(kUNSEENStr, stringBetween(lineStr, " ", "]"))
        ELSE IF Find(lineStr, kEXISTSStr, 0) # NPOS
        THEN IF stringUntaggedNumberThrows(lineStr) THEN Outcome(r, <<>>, "out_of_range")
             ELSE put(kEXISTSStr, stringUntaggedNumber(lineStr))
        ELSE IF Find(lineStr, kRECENTStr, 0) # NPOS
        THEN IF stringUntaggedNumberThrows(lineStr) THEN Outcome(r, <<>>, "out_of_range")
             ELSE put(kRECENTStr, stringUntaggedNumber(lineStr))
        ELSE IF st.thrown = "" /\ st.resp.status = "OK"
        THEN [st EXCEPT !.resp.mailBoxAccessStr = stringBetween(lineStr, "[", "]")]
        ELSE st

(***************************************************************************)
(* The item sub-parsers of parseFETCH.  Each yields the rest of the line,  *)
(* the per-message map after the insert, and the exception thrown ("" when *)
(* none); parseOctets also moves the stream.                               *)
(***************************************************************************)
ItemOutcome(rest, map, thrownWhat) == [lineStr |-> rest, responseMap |-> map, thrown |-> thrownWhat]

parseNumber(itemStr, fetchMap, lineStr) ==
    LET afterItem == SubstrFrom(lineStr, Len(itemStr) + 1)
        numberStr == DigitRun(afterItem, 0)
    IN  IF SubstrThrows(lineStr, Len(itemStr) + 1) THEN ItemOutcome(lineStr, fetchMap, "out_of_range")
        ELSE ItemOutcome(SubstrFrom(afterItem, Len(numberStr)),
                         MapInsert(fetchMap, itemStr, numberStr), "")

parseString(itemStr, fetchMap, lineStr) ==
    LET start == Find(lineStr, itemStr, 0) + Len(itemStr) + 1
        afterItem == SubstrFrom(lineStr, start)
        quotedString == "\"" \o stringBetween(afterItem, "\"", "\"") \o "\""
    IN  IF SubstrThrows(lineStr, start) THEN ItemOutcome(lineStr, fetchMap, "out_of_range")
        ELSE IF SubstrThrows(afterItem, Len(quotedString))
        THEN ItemOutcome(afterItem, fetchMap, "out_of_range")
        ELSE ItemOutcome(SubstrFrom(afterItem, Len(quotedString)),
                         MapInsert(fetchMap, itemStr, quotedString), "")

parseList(itemStr, fetchMap, lineStr) ==
    LET start == Find(lineStr, itemStr, 0) + Len(itemStr) + 1
        afterItem == SubstrFrom(lineStr, start)
        listStr == stringList(afterItem)
    IN  IF SubstrThrows(lineStr, start) THEN ItemOutcome(lineStr, fetchMap, "out_of_range")
        ELSE IF stringListThrows(afterItem) THEN ItemOutcome(afterItem, fetchMap, "out_of_range")
        ELSE ItemOutcome(SubstrFrom(afterItem, Len(listStr)),
                         MapInsert(fetchMap, itemStr, listStr), "")

\* A faulty key that stops after the item token, leaving the octet count out.
\* C20_LiteralKeyIsItemText tells it from OctetsLabel.
OctetsLabelTokenOnly(lineStr) == Substr(lineStr, 0, FindFirstOf(lineStr, " ", 0))

\* The key parseOctets stores a literal under: the line as it stands when the
\* item is reached, without a trailing '\r'.
OctetsLabel(lineStr) == IF At(lineStr, Len(lineStr) - 1) = "\r" THEN PopBack(lineStr) ELSE lineStr

\* The octet count parseOctets decodes for the item at the start of lineStr.
OctetsCount(itemStr, lineStr) ==
    StrToULL(stringBetween(SubstrFrom(lineStr, Find(lineStr, itemStr, 0) + Len(itemStr)), "{", "}"))

\* A faulty parseOctets that reads one byte less than the octet count.
\* C2_LiteralIsFaithful tells it from parseOctets.
parseOctetsOffByOne(itemStr, fetchMap, lineStr, data, st) ==
    LET start == Find(lineStr, itemStr, 0) + Len(itemStr)
        afterItem == SubstrFrom(lineStr, start)
        octetStr == stringBetween(afterItem, "{", "}")
        afterCount == SubstrFrom(afterItem, Len(octetStr) + 2)
        rd == Read(data, st, OctetsCount(itemStr, lineStr) - 1)
        gl == GetLine(data, rd.stream, afterCount)
    IN  [lineStr |-> gl.line,
         responseMap |-> MapInsert(fetchMap, OctetsLabel(lineStr), rd.buffer),
         thrown |-> "", stream |-> gl.stream]

parseOctets(itemStr, fetchMap, lineStr, data, st) ==
    LET start == Find(lineStr, itemStr, 0) + Len(itemStr)
        afterItem == SubstrFrom(lineStr, start)
        octetStr == stringBetween(afterItem, "{", "}")
        afterCount == SubstrFrom(afterItem, Len(octetStr) + 2)
        rd == Read(data, st, OctetsCount(itemStr, lineStr))
        gl == GetLine(data, rd.stream, afterCount)
    IN  IF SubstrThrows(lineStr, start) \/ SubstrThrows(afterItem, Len(octetStr) + 2)
        THEN [lineStr |-> lineStr, responseMap |-> fetchMap, thrown |-> "out_of_range",
              stream |-> st]
        ELSE [lineStr |-> gl.line,
              responseMap |-> MapInsert(fetchMap, OctetsLabel(lineStr), rd.buffer),
              thrown |-> "", stream |-> gl.stream]

\* Which branch of the item chain of parseFETCH a line takes: the sub-parser
\* and the item string handed to it.
FetchItem(lineStr) ==
    LET is(str) == stringEqual(lineStr, str)
    IN  IF is(kBODYSTRUCTUREStr \o kSPACE) THEN [parser |-> "list", itemStr |-> kBODYSTRUCTUREStr]
        ELSE IF is(kENVELOPEStr \o kSPACE) THEN [parser |-> "list", itemStr |-> kENVELOPEStr]
        ELSE IF is(kFLAGSStr \o kSPACE) THEN [parser |-> "list", itemStr |-> kFLAGSStr]
        ELSE IF is(kBODYStr \o kSPACE) THEN [parser |-> "list", itemStr |-> kBODYStr]
        ELSE IF is(kINTERNALDATEStr \o kSPACE) THEN [parser |-> "string", itemStr |-> kINTERNALDATEStr]
        ELSE IF is(kRFC822SIZEStr \o kSPACE) THEN [parser |-> "number", itemStr |-> kRFC822SIZEStr]
        ELSE IF is(kUIDStr \o kSPACE) THEN [parser |-> "number", itemStr |-> kUIDStr]
        ELSE IF is(kRFC822HEADERStr \o kSPACE) THEN [parser |-> "octets", itemStr |-> kRFC822HEADERStr]
        ELSE IF is(kBODYStr \o "[") THEN [parser |-> "octets", itemStr |-> kBODYStr]
        ELSE IF is(kRFC822Str \o kSPACE) THEN [parser |-> "octets", itemStr |-> kRFC822Str]
        ELSE [parser |-> "none", itemStr |-> ""]

(***************************************************************************)
(* Response blobs.  A blob is the echoed command line followed by at most  *)
(* MaxChunks chunks; a chunk is a response line, or a FETCH message with   *)
(* its literals.  Every command is sent with tag A1.                       *)
(***************************************************************************)
\* Lines every command can receive: the tagged completion (with the text
\* servers send for the verb), a completion that carries the tag of another
\* command, the untagged BYE, NO and BAD, and a line that is no IMAP response.
CommonChunks(okText) ==
    {"A1 OK " \o okText \o " completed\r\n",
     "A1 NO " \o okText \o " failed\r\n",
     "A1 BAD invalid arguments\r\n",
     "A10 OK other completed\r\n",
     "* BYE server shutting down\r\n",
     "* NO quota warning\r\n",
     "* BAD oops\r\n",
     "garbage\r\n"}

FetchChunks ==
    {"* 1 FETCH (UID 7 FLAGS (\\Seen))\r\n",
     "* 2 FETCH (BODY[1] {5}\r\nab\r\nc)\r\n",
     "* 3 FETCH (XYZ 1)\r\n",
     "* 4 FETCH (RFC822.SIZE 9 RFC822.HEADER {3}\r\nabc BODY[TEXT] {4}\r\nhi\r\n)\r\n",
     "* 5 FETCH (FLAGS (\\Seen\r\n",
     "* 6 FETCH (RFC822 {30}\r\nab",
     "* 7 FETCH (INTERNALDATE \"d\" ENVELOPE (e) BODY (b) BODYSTRUCTURE ((a)(b)))\r\n",
     "* 8 FETCH (BODY[2] {2}\r\nhi\r\nUID 3)\r\n"}

\* The commands of the model: the command line, the text of its tagged
\* completion, and the payload chunks a server sends for it.
CommandSet ==
    {[line |-> "A1 FETCH 1 (FLAGS)", okText |-> "FETCH", payload |-> FetchChunks],
     [line |-> "A1 UID FETCH 1 (FLAGS)", okText |-> "FETCH", payload |-> {}],
     [line |-> "A1 uid fetch 1 (flags)", okText |-> "FETCH", payload |-> {}],
     [line |-> "A1 NOOP", okText |-> "NOOP", payload |-> {"* 4 EXISTS\r\n"}],
     [line |-> "A1 IDLE", okText |-> "IDLE", payload |-> {}],
     [line |-> "A1 LOGOUT", okText |-> "LOGOUT", payload |-> {}],
     [line |-> "A1 SELECT INBOX", okText |-> "[READ-WRITE] SELECT",
      payload |-> {"* 17 EXISTS\r\n", "* 2 RECENT\r\n", "* OK [UNSEEN 4]\r\n",
                  "* OK [UIDVALIDITY 38]\r\n", "* FLAGS (\\Seen \\Draft)\r\n",
                  "A1 NO no mailbox of that name EXISTS\r\n"}],
     [line |-> "A1 EXAMINE \"Sent\"", okText |-> "[READ-ONLY] EXAMINE", payload |-> {}],
     [line |-> "A1 SEARCH ALL", okText |-> "SEARCH", payload |-> {"* SEARCH 2 84\r\n", "* SEARCH\r\n", "* SEARCH 5 \r\n"}],
     [line |-> "A1 UID SEARCH ALL", okText |-> "SEARCH", payload |-> {}],
     [line |-> "A1 LIST \"\" *", okText |-> "LIST",
      payload |-> {"* LIST (\\HasNoChildren) \"/\" \"INBOX\"\r\n"}],
     [line |-> "A1 LSUB \"\" *", okText |-> "LSUB", payload |-> {"* LSUB () \".\" #news\r\n"}],
     [line |-> "A1 STATUS INBOX (MESSAGES UIDNEXT)", okText |-> "STATUS",
      payload |-> {"* STATUS INBOX (MESSAGES 23 UIDNEXT 44)\r\n", "* STATUS INBOX ()\r\n"}],
     [line |-> "A1 EXPUNGE", okText |-> "EXPUNGE", payload |-> {"* 3 EXPUNGE\r\n", "* 5 EXISTS\r\n"}],
     [line |-> "A1 STORE 1 +FLAGS (\\Seen)", okText |-> "STORE",
      payload |-> {"* 1 FETCH (FLAGS (\\Seen))\r\n", "* 2 FETCH (FLAGS (\\Seen\r\n"}],
     [line |-> "A1 UID STORE 1 +FLAGS (\\Seen)", okText |-> "STORE", payload |-> {}],
     [line |-> "A1 CAPABILITY", okText |-> "CAPABILITY",
      payload |-> {"* CAPABILITY IMAP4rev1 IDLE\r\n"}],
     [line |-> "A1 CREATE box", okText |-> "CREATE", payload |-> {}],
     [line |-> "A1 UID COPY 1 box", okText |-> "COPY", payload |-> {}],
     [line |-> "A1 XYZZY", okText |-> "XYZZY", payload |-> {}]}

RECURSIVE Concat(_)
Concat(texts) == IF Len(texts) = 0 THEN "" ELSE Head(texts) \o Concat(Tail(texts))

\* The chunk sequences that can follow the command line of command c.
Bodies(c) ==
    UNION {[1..n -> CommonChunks(c.okText) \cup c.payload] : n \in 0..MaxChunks}

Blobs == UNION {{c.line \o "\r\n" \o Concat(body) : body \in Bodies(c)} : c \in CommandSet}

(***************************************************************************)
(* State.                                                                  *)
(***************************************************************************)
VARIABLES
    blob,              \* commandResponseStr, the argument of parseResponse
    stream,            \* responseStream / commandData.commandRespStream
    pc,                \* where the call stands: "start", "lines", "item",
                       \* "advance", "returned", "thrown"
    tagStr,            \* commandData.tagStr
    commandLineStr,    \* commandData.commandLineStr
    parseFn,           \* the parse routine parseResponse dispatches to
    resp,              \* the response under construction
    lineStr,           \* the current line of the routine
    lineLength,        \* parseFETCH: length of the message's first line plus EOL
    fetchData,         \* parseFETCH: the FetchRespData of the current message
    cerr,              \* lines written to std::cerr
    exception,         \* the exception that left parseResponse, if any
    consumed,          \* whether the line read last was taken as payload
    stringToCodeMap,   \* static: command string -> command code
    parseCommmandMap,  \* static: command code -> parse routine
    calls,             \* the calls of parseResponse that run in parallel
    bodyStruct,        \* consructBodyStructTree: its input and the tree it builds
    codec,             \* the Base64 codec: input bytes, encoded text, decoded bytes
    apprise,           \* the CApprise object, its threads and its inotify descriptor
    transfer           \* a file transfer call (FTP getFiles, SFTP putFiles, SCP getFile)

vars == <<blob, stream, pc, tagStr, commandLineStr, parseFn, resp, lineStr, lineLength,
          fetchData, cerr, exception, consumed, stringToCodeMap, parseCommmandMap, calls,
          bodyStruct, codec, apprise, transfer>>

\* The variables of the utilities beside the response parser.
UtilityVars == <<bodyStruct, codec, apprise, transfer>>

\* A utility that has not been called.
NotCalled == [pc |-> "idle"]

NoException == [what |-> "", lineStr |-> ""]

NewFetchRespData == [index |-> 0, responseMap |-> EmptyMap]

\* Spec follows a single call; the calls that run in parallel are those of
\* SpecPar below.
NoCalls == <<>>

Init ==
    /\ blob \in Blobs
    /\ stream = NewStream
    /\ pc = "start"
    /\ tagStr = ""
    /\ commandLineStr = ""
    /\ parseFn = ""
    /\ resp = NewResponse("")
    /\ lineStr = ""
    /\ lineLength = 0
    /\ fetchData = NewFetchRespData
    /\ cerr = <<>>
    /\ exception = NoException
    /\ consumed = FALSE
    /\ stringToCodeMap = EmptyMap
    /\ parseCommmandMap = InitialParseCommandMap
    /\ calls = NoCalls
    /\ bodyStruct = NotCalled
    /\ codec = NotCalled
    /\ apprise = NotCalled
    /\ transfer = NotCalled

(***************************************************************************)
(* parseResponse: load the string table on first use, read the command     *)
(* line, look up its command code and parse routine (both lookups insert   *)
(* what they do not find), and enter the routine.                          *)
(***************************************************************************)
\* The routine parseCommmandMap yields for a code; a missing or empty entry
\* is replaced by parseDefault.
RoutineFor(map, code) ==
    IF code \in DOMAIN map /\ map[code] # "" THEN map[code] ELSE "parseDefault"

ParseResponse ==
    /\ pc = "start"
    /\ LET gl == GetLine(blob, stream, "")
           line == PopBack(gl.line)
           loaded == IF stringToCodeMap = EmptyMap THEN loadStringToCodeMap ELSE stringToCodeMap
           codes == MapIndex(loaded, stringCommand(line), DefaultCommandCode)
           code == codes[stringCommand(line)]
           fn == RoutineFor(parseCommmandMap, code)
       IN  /\ stream' = gl.stream
           /\ commandLineStr' = line
           /\ tagStr' = stringTag(line)
           /\ stringToCodeMap' = codes
           /\ parseCommmandMap' = [c \in DOMAIN parseCommmandMap \cup {code} |-> RoutineFor(parseCommmandMap, c)]
           /\ parseFn' = fn
           /\ resp' = IF fn = "parseSELECT"
                      THEN [NewResponse(code) EXCEPT !.mailBoxNameStr = SelectMailBoxName(line)]
                      ELSE NewResponse(code)
           /\ pc' = "lines"
    /\ UNCHANGED <<blob, lineStr, lineLength, fetchData, cerr, exception, consumed, calls, UtilityVars>>

(***************************************************************************)
(* The line loops.  One step runs the loop once: std::getline, pop_back of *)
(* the '\r', and the body of the loop.  (The blobs of the model hold no    *)
(* empty line, on which pop_back is undefined.)                            *)
(***************************************************************************)
\* One turn of the line loop of routine fn, whose body is Body.
LineStep(fn, Body(_, _, _)) ==
    /\ pc = "lines"
    /\ parseFn = fn
    /\ LET gl == GetLine(blob, stream, lineStr)
           line == PopBack(gl.line)
           out == Body(resp, tagStr, line)
       IN  /\ gl.ok
           /\ stream' = gl.stream
           /\ lineStr' = line
           /\ resp' = out.resp
           /\ cerr' = cerr \o out.cerr
           /\ consumed' = out.payload
           /\ IF out.thrown = ""
              THEN pc' = "lines" /\ UNCHANGED exception
              ELSE pc' = "thrown" /\ exception' = [what |-> out.thrown, lineStr |-> out.thrownLine]
    /\ UNCHANGED <<blob, tagStr, commandLineStr, parseFn, lineLength, fetchData,
                   stringToCodeMap, parseCommmandMap, calls, UtilityVars>>

ParseDefault == LineStep("parseDefault", DefaultLine)

ParseNOOP == LineStep("parseNOOP", NOOPLine)

ParseLOGOUT == LineStep("parseLOGOUT", LOGOUTLine)

ParseCAPABILITY == LineStep("parseCAPABILITY", CAPABILITYLine)

ParseEXPUNGE == LineStep("parseEXPUNGE", EXPUNGELine)

ParseSTORE == LineStep("parseSTORE", STORELine)

ParseSEARCH ==
    \E garbage \in IndeterminateIndexes :
        LineStep("parseSEARCH", LAMBDA r, t, l : SEARCHLine(r, t, l, garbage))

ParseSTATUS == LineStep("parseSTATUS", STATUSLine)

ParseLIST == LineStep("parseLIST", LISTLine)

ParseSELECT == LineStep("parseSELECT", SELECTLine)

\* std::getline fails at the top of a line loop: the routine returns the
\* response.
Return ==
    /\ pc = "lines"
    /\ ~GetLine(blob, stream, lineStr).ok
    /\ stream' = GetLine(blob, stream, lineStr).stream
    /\ pc' = "returned"
    /\ UNCHANGED <<blob, tagStr, commandLineStr, parseFn, resp, lineStr, lineLength, fetchData,
                   cerr, exception, consumed, stringToCodeMap, parseCommmandMap, calls, UtilityVars>>

(***************************************************************************)
(* parseFETCH.                                                             *)
(***************************************************************************)
\* One turn of the line loop: a line with "FETCH (" opens a message and the
\* item loop, any other line goes to status handling.
ParseFETCH ==
    /\ pc = "lines"
    /\ parseFn = "parseFETCH"
    /\ LET gl == GetLine(blob, stream, lineStr)
           line == PopBack(gl.line)
           out == StatusStep(resp, tagStr, line)
       IN  /\ gl.ok
           /\ stream' = gl.stream
           /\ lineLength' = Len(line) + Len(kEOLStr)
           /\ IF Find(line, kFETCHStr \o " (", 0) # NPOS
              THEN /\ fetchData' = [index |-> StrToULL(stringUntaggedNumber(line)),
                                    responseMap |-> EmptyMap]
                   /\ lineStr' = SubstrFrom(line, FindFirstOf(line, "(", 0) + 1)
                   /\ pc' = "item"
                   /\ consumed' = TRUE
                   /\ UNCHANGED <<resp, cerr, exception>>
              ELSE /\ fetchData' = NewFetchRespData
                   /\ lineStr' = line
                   /\ consumed' = FALSE
                   /\ resp' = out.resp
                   /\ cerr' = cerr \o out.cerr
                   /\ IF out.thrown = ""
                      THEN pc' = "lines" /\ UNCHANGED exception
                      ELSE /\ pc' = "thrown"
                           /\ exception' = [what |-> out.thrown, lineStr |-> out.thrownLine]
    /\ UNCHANGED <<blob, tagStr, commandLineStr, parseFn, stringToCodeMap, parseCommmandMap,
                   calls, UtilityVars>>

\* An item sub-parser has run with outcome out: on to the rest of the line,
\* unless it threw.
ItemDone(out, newStream) ==
    /\ stream' = newStream
    /\ IF out.thrown = ""
       THEN /\ lineStr' = out.lineStr
            /\ fetchData' = [fetchData EXCEPT !.responseMap = out.responseMap]
            /\ pc' = "advance"
            /\ UNCHANGED exception
       ELSE /\ pc' = "thrown"
            /\ exception' = [what |-> out.thrown, lineStr |-> ""]
            /\ UNCHANGED <<lineStr, fetchData>>
    /\ UNCHANGED <<blob, tagStr, commandLineStr, parseFn, resp, lineLength, cerr, consumed,
                   stringToCodeMap, parseCommmandMap, calls, UtilityVars>>

FetchList ==
    /\ pc = "item"
    /\ LET item == FetchItem(lineStr)
           out == parseList(item.itemStr, fetchData.responseMap, lineStr)
       IN  item.parser = "list" /\ ItemDone(out, stream)

FetchString ==
    /\ pc = "item"
    /\ LET item == FetchItem(lineStr)
           out == parseString(item.itemStr, fetchData.responseMap, lineStr)
       IN  item.parser = "string" /\ ItemDone(out, stream)

FetchNumber ==
    /\ pc = "item"
    /\ LET item == FetchItem(lineStr)
           out == parseNumber(item.itemStr, fetchData.responseMap, lineStr)
       IN  item.parser = "number" /\ ItemDone(out, stream)

FetchOctets ==
    /\ pc = "item"
    /\ LET item == FetchItem(lineStr)
           out == parseOctets(item.itemStr, fetchData.responseMap, lineStr, blob, stream)
       IN  item.parser = "octets" /\ ItemDone(out, out.stream)

\* A faulty else branch that drops the unmatched token and goes on with the
\* rest of the line instead of clearing it.  C6_UnknownItemAborts tells it
\* from FetchUnknown.
FetchUnknownSkips ==
    /\ pc = "item"
    /\ FetchItem(lineStr).parser = "none"
    /\ lineStr' = SubstrFrom(lineStr, TokenEnd(lineStr, 0))
    /\ pc' = "advance"
    /\ UNCHANGED <<blob, stream, tagStr, commandLineStr, parseFn, resp, lineLength, fetchData,
                   cerr, exception, consumed, stringToCodeMap, parseCommmandMap, calls, UtilityVars>>

\* A faulty else branch that leaves the unmatched line as it is.
\* C19_FetchTerminates tells it from FetchUnknown.
FetchUnknownStays ==
    /\ pc = "item"
    /\ FetchItem(lineStr).parser = "none"
    /\ pc' = "advance"
    /\ UNCHANGED <<blob, stream, tagStr, commandLineStr, parseFn, resp, lineStr, lineLength,
                   fetchData, cerr, exception, consumed, stringToCodeMap, parseCommmandMap,
                   calls, UtilityVars>>

\* No item matches: the line is cleared to force the exception.
FetchUnknown ==
    /\ pc = "item"
    /\ FetchItem(lineStr).parser = "none"
    /\ lineStr' = ""
    /\ pc' = "advance"
    /\ UNCHANGED <<blob, stream, tagStr, commandLineStr, parseFn, resp, lineLength, fetchData,
                   cerr, exception, consumed, stringToCodeMap, parseCommmandMap, calls, UtilityVars>>

\* The line the FETCH exception carries: the stream is moved lineLength bytes
\* before its end and one line is read there.
FetchErrorLine(data, st, length) == GetLine(data, SeekEnd(data, st, -length), "")

\* After an item ("Still data to process"): skip blanks; ')' closes the
\* message, a line with only its '\r' left is replaced by the next line of
\* the blob, an empty line is the parse error.
FetchAdvance ==
    /\ pc = "advance"
    /\ LET skip == FindFirstNotOf(lineStr, " ", 0)
           rest == SubstrFrom(lineStr, skip)
           gl == GetLine(blob, stream, rest)
           err == FetchErrorLine(blob, stream, lineLength)
       IN  IF Len(lineStr) = 0
           THEN /\ stream' = err.stream
                /\ lineStr' = err.line
                /\ exception' = [what |-> "FETCH command", lineStr |-> err.line]
                /\ pc' = "thrown"
                /\ UNCHANGED <<resp, fetchData>>
           ELSE IF skip = NPOS
           THEN /\ exception' = [what |-> "out_of_range", lineStr |-> ""]
                /\ pc' = "thrown"
                /\ UNCHANGED <<stream, lineStr, resp, fetchData>>
           ELSE IF At(rest, 0) = ")"
           THEN /\ resp' = [resp EXCEPT !.fetchList = Append(@, fetchData)]
                /\ fetchData' = NewFetchRespData
                /\ lineStr' = rest
                /\ pc' = "lines"
                /\ UNCHANGED <<stream, exception>>
           ELSE IF Len(rest) = Len(kEOLStr) - 1
           THEN /\ stream' = gl.stream
                /\ lineStr' = gl.line
                /\ pc' = "item"
                /\ UNCHANGED <<resp, fetchData, exception>>
           ELSE /\ lineStr' = rest
                /\ pc' = "item"
                /\ UNCHANGED <<stream, resp, fetchData, exception>>
    /\ UNCHANGED <<blob, tagStr, commandLineStr, parseFn, lineLength, cerr, consumed,
                   stringToCodeMap, parseCommmandMap, calls, UtilityVars>>

Next ==
    \/ ParseResponse
    \/ ParseDefault
    \/ ParseNOOP
    \/ ParseLOGOUT
    \/ ParseCAPABILITY
    \/ ParseEXPUNGE
    \/ ParseSTORE
    \/ ParseSEARCH
    \/ ParseSTATUS
    \/ ParseLIST
    \/ ParseSELECT
    \/ ParseFETCH
    \/ FetchList
    \/ FetchString
    \/ FetchNumber
    \/ FetchOctets
    \/ FetchUnknown
    \/ FetchAdvance
    \/ Return

Spec == Init /\ [][Next]_vars

(***************************************************************************)
(* Calls of parseResponse that run in parallel.  The two tables are static *)
(* members, so every call works on the same stringToCodeMap and            *)
(* parseCommmandMap, and the code takes no lock.  A step of SpecPar is one *)
(* access of one call to a table; everything else a call does works on its *)
(* own stream and response.  Each call records the tables it has read and  *)
(* written and the calls it has overlapped with.                           *)
(***************************************************************************)
\* Number of threads, each of which calls parseResponse once.
MaxCalls == 2

Callers == 1..MaxCalls

\* The command lines of the blobs handed to the parallel calls.
ParallelCommandLines == {"A1 NOOP", "A1 UID FETCH 1 (FLAGS)", "A1 CREATE box", "A1 XYZZY"}

IdleCall ==
    [pc |-> "idle", commandLineStr |-> "", commandCode |-> "", parseFn |-> "",
     reads |-> {}, writes |-> {}, peers |-> {}]

InCall(t) == calls[t].pc \notin {"idle", "done", "crashed"}

\* An access of call t to a table conflicts with an access of a call it
\* overlaps with: two accesses to the same table, one of them a write, that
\* nothing orders.  The behaviour of the program is then undefined.
Conflict(t, table, isWrite) ==
    \E u \in calls[t].peers :
        \/ table \in calls[u].writes
        \/ isWrite /\ table \in calls[u].reads

InitPar ==
    /\ blob = ""
    /\ stream = NewStream
    /\ pc = "start"
    /\ tagStr = ""
    /\ commandLineStr = ""
    /\ parseFn = ""
    /\ resp = NewResponse("")
    /\ lineStr = ""
    /\ lineLength = 0
    /\ fetchData = NewFetchRespData
    /\ cerr = <<>>
    /\ exception = NoException
    /\ consumed = FALSE
    /\ stringToCodeMap = EmptyMap
    /\ parseCommmandMap = InitialParseCommandMap
    /\ calls = [t \in Callers |-> IdleCall]
    /\ bodyStruct = NotCalled
    /\ codec = NotCalled
    /\ apprise = NotCalled
    /\ transfer = NotCalled

SingleCallVars ==
    <<blob, stream, pc, tagStr, commandLineStr, parseFn, resp, lineStr, lineLength, fetchData,
      cerr, exception, consumed>>

\* Thread t calls parseResponse; the calls that are running overlap with it.
Enter(t) ==
    /\ calls[t].pc = "idle"
    /\ \E line \in ParallelCommandLines :
          calls' = [u \in Callers |->
                      IF u = t
                      THEN [IdleCall EXCEPT !.pc = "check", !.commandLineStr = line,
                                            !.peers = {v \in Callers : InCall(v)}]
                      ELSE IF InCall(u) THEN [calls[u] EXCEPT !.peers = @ \cup {t}]
                      ELSE calls[u]]
    /\ UNCHANGED <<SingleCallVars, UtilityVars, stringToCodeMap, parseCommmandMap>>

\* if (stringToCodeMap.empty()): a read that conflicts can see either answer.
CheckEmpty(t) ==
    /\ calls[t].pc = "check"
    /\ \E empty \in IF Conflict(t, "stringToCodeMap", FALSE)
                    THEN BOOLEAN ELSE {stringToCodeMap = EmptyMap} :
          calls' = [calls EXCEPT ![t].pc = IF empty THEN "load" ELSE "code",
                                 ![t].reads = @ \cup {"stringToCodeMap"}]
    /\ UNCHANGED <<SingleCallVars, UtilityVars, stringToCodeMap, parseCommmandMap>>

\* stringToCodeMap = loadStringToCodeMap();
Load(t) ==
    /\ calls[t].pc = "load"
    /\ stringToCodeMap' = loadStringToCodeMap
    /\ calls' = [calls EXCEPT ![t].pc = "code", ![t].writes = @ \cup {"stringToCodeMap"}]
    /\ UNCHANGED <<SingleCallVars, UtilityVars, parseCommmandMap>>

\* The codes a lookup that conflicts can yield: the code of the command, the
\* value-initialised code, or the code of another entry of the table (those
\* of the commands that run in parallel stand for all).
RacyCodes(code) ==
    {code, DefaultCommandCode}
        \cup ({stringCommand(line) : line \in ParallelCommandLines} \cap CommandStrings)

\* stringToCodeMap[stringCommand(commandLineStr)]: a read, and for a command
\* string the table does not hold an insert.
LookupCode(t) ==
    /\ calls[t].pc = "code"
    /\ LET key == stringCommand(calls[t].commandLineStr)
           isWrite == key \notin DOMAIN stringToCodeMap
           codes == MapIndex(stringToCodeMap, key, DefaultCommandCode)
       IN  /\ stringToCodeMap' = codes
           /\ \E code \in IF Conflict(t, "stringToCodeMap", isWrite)
                          THEN RacyCodes(codes[key]) ELSE {codes[key]} :
                 calls' = [calls EXCEPT
                             ![t].pc = "fn",
                             ![t].commandCode = code,
                             ![t].reads = @ \cup {"stringToCodeMap"},
                             ![t].writes = IF isWrite THEN @ \cup {"stringToCodeMap"} ELSE @]
    /\ UNCHANGED <<SingleCallVars, UtilityVars, parseCommmandMap>>

\* parseFn = parseCommmandMap[commandCode]: a read, and for a code the table
\* does not hold an insert of an empty routine.
LookupFn(t) ==
    /\ calls[t].pc = "fn"
    /\ LET code == calls[t].commandCode
           isWrite == code \notin DOMAIN parseCommmandMap
           routines == MapIndex(parseCommmandMap, code, "")
       IN  /\ parseCommmandMap' = routines
           /\ calls' = [calls EXCEPT
                          ![t].pc = IF routines[code] = "" THEN "default" ELSE "run",
                          ![t].parseFn = routines[code],
                          ![t].reads = @ \cup {"parseCommmandMap"},
                          ![t].writes = IF isWrite THEN @ \cup {"parseCommmandMap"} ELSE @]
    /\ UNCHANGED <<SingleCallVars, UtilityVars, stringToCodeMap>>

\* if (!parseFn) { parseCommmandMap[commandCode] = parseDefault; ... }
StoreDefault(t) ==
    /\ calls[t].pc = "default"
    /\ parseCommmandMap' =
          [c \in DOMAIN parseCommmandMap \cup {calls[t].commandCode} |->
              IF c = calls[t].commandCode THEN "parseDefault" ELSE parseCommmandMap[c]]
    /\ calls' = [calls EXCEPT ![t].pc = "run", ![t].parseFn = "parseDefault",
                              ![t].writes = @ \cup {"parseCommmandMap"}]
    /\ UNCHANGED <<SingleCallVars, UtilityVars, stringToCodeMap>>

\* return (parseFn(commandData)): the routine works on the call's own stream
\* and response.
Run(t) ==
    /\ calls[t].pc = "run"
    /\ calls' = [calls EXCEPT ![t].pc = "done"]
    /\ UNCHANGED <<SingleCallVars, UtilityVars, stringToCodeMap, parseCommmandMap>>

\* The table a call accesses next, and whether the access writes.
NextAccess(t) ==
    CASE calls[t].pc \in {"check"} -> [table |-> "stringToCodeMap", isWrite |-> FALSE]
      [] calls[t].pc = "load" -> [table |-> "stringToCodeMap", isWrite |-> TRUE]
      [] calls[t].pc = "code" ->
            [table |-> "stringToCodeMap",
             isWrite |-> stringCommand(calls[t].commandLineStr) \notin DOMAIN stringToCodeMap]
      [] calls[t].pc = "fn" ->
            [table |-> "parseCommmandMap",
             isWrite |-> calls[t].commandCode \notin DOMAIN parseCommmandMap]
      [] calls[t].pc = "default" -> [table |-> "parseCommmandMap", isWrite |-> TRUE]
      [] OTHER -> [table |-> "", isWrite |-> FALSE]

\* An access that conflicts can also end the process.
Crash(t) ==
    /\ NextAccess(t).table # ""
    /\ Conflict(t, NextAccess(t).table, NextAccess(t).isWrite)
    /\ calls' = [calls EXCEPT ![t].pc = "crashed"]
    /\ UNCHANGED <<SingleCallVars, UtilityVars, stringToCodeMap, parseCommmandMap>>

NextPar ==
    \E t \in Callers :
        \/ Enter(t)
        \/ CheckEmpty(t)
        \/ Load(t)
        \/ LookupCode(t)
        \/ LookupFn(t)
        \/ StoreDefault(t)
        \/ Run(t)
        \/ Crash(t)

SpecPar == InitPar /\ [][NextPar]_vars

(***************************************************************************)
(* The utilities run apart from the response parser, which is at rest.     *)
(***************************************************************************)
ParserVars == <<SingleCallVars, stringToCodeMap, parseCommmandMap, calls>>

ParserAtRest ==
    /\ blob = ""
    /\ stream = NewStream
    /\ pc = "start"
    /\ tagStr = ""
    /\ commandLineStr = ""
    /\ parseFn = ""
    /\ resp = NewResponse("")
    /\ lineStr = ""
    /\ lineLength = 0
    /\ fetchData = NewFetchRespData
    /\ cerr = <<>>
    /\ exception = NoException
    /\ consumed = FALSE
    /\ stringToCodeMap = EmptyMap
    /\ parseCommmandMap = InitialParseCommandMap
    /\ calls = NoCalls

(***************************************************************************)
(* The body-structure tree.  consructBodyStructTree takes the BODYSTRUCTURE *)
(* string of a FETCH response apart: a part that starts with a nested list  *)
(* is a multipart node whose leading lists are its child parts, any other   *)
(* part is a single-part leaf.  The tree is kept as the set of its parts,   *)
(* each with its place in the tree (path: the child indexes from the root), *)
(* its partNo, its text and whether it has a child node.                    *)
(***************************************************************************)
\* Most child parts of one multipart node in the inputs of the model.
MaxParts == 3

\* std::to_string(n)
RECURSIVE to_string(_)
to_string(n) ==
    IF n < 10 THEN Substr("0123456789", n, 1)
    ELSE to_string(n \div 10) \o Substr("0123456789", n % 10, 1)

\* A single-part body structure and a multipart one with the given parts.
LeafPart == "(\"TEXT\" \"PLAIN\")"

MultiPart(parts) == "(" \o Concat(parts) \o " \"MIXED\")"

PartLists(parts) == UNION {[1..n -> parts] : n \in 1..MaxParts}

\* The BODYSTRUCTURE strings of the model: a leaf, or a multipart whose
\* parts are leaves or multiparts of leaves.
BodyStructures ==
    LET nested == {LeafPart} \cup {MultiPart(parts) : parts \in PartLists({LeafPart})}
    IN  {LeafPart} \cup {MultiPart(parts) : parts \in PartLists(nested)}

\* A multipart form begins with a nested list, a single-part form with the
\* quoted type.
IsMultiPart(part) == At(part, 1) = "("

\* The lists that rest starts with, one after the other.
RECURSIVE LeadingLists(_)
LeadingLists(rest) ==
    IF At(rest, 0) = "("
    THEN <<stringList(rest)>> \o LeadingLists(SubstrFrom(rest, Len(stringList(rest))))
    ELSE <<>>

\* The child parts of a multipart.
ChildParts(part) == LeadingLists(SubstrFrom(part, 1))

\* A faulty part number that leaves the dot out.  C16_PartNoOfChild tells it
\* from PartNo.
PartNoUndotted(partLevel, index) == partLevel \o to_string(index)

\* The part number of child index (1-based) of the node whose part number is
\* partLevel; the root's is empty.
PartNo(partLevel, index) ==
    IF partLevel = "" THEN to_string(index) ELSE partLevel \o "." \o to_string(index)

BodyPart(path, partNo, part) ==
    [path |-> path, partNo |-> partNo, part |-> part, child |-> IsMultiPart(part)]

InitBodyStruct ==
    /\ ParserAtRest
    /\ codec = NotCalled
    /\ apprise = NotCalled
    /\ transfer = NotCalled
    /\ \E bodyPart \in BodyStructures :
          bodyStruct = [pc |-> "called", bodyPart |-> bodyPart, bodyParts |-> {}, work |-> <<>>]

\* consructBodyStructTree(bodyNode, bodyPart): the root of the tree is the
\* whole string; a multipart root is left to createBodyStructTree.
ConsructBodyStructTree ==
    /\ bodyStruct.pc = "called"
    /\ LET root == BodyPart(<<>>, "", bodyStruct.bodyPart)
       IN  bodyStruct' = [bodyStruct EXCEPT !.pc = "create",
                                            !.bodyParts = {root},
                                            !.work = IF root.child THEN <<root>> ELSE <<>>]
    /\ UNCHANGED <<ParserVars, codec, apprise, transfer>>

\* createBodyStructTree for one multipart node: its child parts are numbered
\* from 1 in the order of the string, and those that are multipart in turn
\* are created later.
CreateBodyStructTree ==
    /\ bodyStruct.pc = "create"
    /\ bodyStruct.work # <<>>
    /\ LET node == Head(bodyStruct.work)
           parts == ChildParts(node.part)
           children == [i \in 1..Len(parts) |->
                           BodyPart(Append(node.path, i), PartNo(node.partNo, i), parts[i])]
       IN  bodyStruct' = [bodyStruct EXCEPT
               !.bodyParts = @ \cup {children[i] : i \in 1..Len(parts)},
               !.work = Tail(@) \o SelectSeq(children, LAMBDA c : c.child)]
    /\ UNCHANGED <<ParserVars, codec, apprise, transfer>>

\* No multipart node is left: the tree is built.
BodyStructTreeBuilt ==
    /\ bodyStruct.pc = "create"
    /\ bodyStruct.work = <<>>
    /\ bodyStruct' = [bodyStruct EXCEPT !.pc = "built"]
    /\ UNCHANGED <<ParserVars, codec, apprise, transfer>>

NextBodyStruct ==
    \/ ConsructBodyStructTree
    \/ CreateBodyStructTree
    \/ BodyStructTreeBuilt

SpecBodyStruct == InitBodyStruct /\ [][NextBodyStruct]_vars

(***************************************************************************)
(* The Base64 codec (RFC 4648) of the SMTP client, used for attachments.   *)
(* A byte string is a sequence of numbers 0..255, the encoded form a text. *)
(***************************************************************************)
\* Longest byte string of the model.
MaxBytes == 5

\* The byte values of the model: NUL, 'a', 'b' and the byte of all ones.
ByteValues == {0, 97, 98, 255}

ByteStrings == UNION {[1..n -> ByteValues] : n \in 1..MaxBytes}

kBase64Alphabet == "ABCDEFGHIJKLMNOPQRSTUVWXYZabcdefghijklmnopqrstuvwxyz0123456789+/"

kBase64Pad == "="

\* The character of a 6-bit value, and the 6-bit value of a character (the
\* pad counts as 0).
Base64Char(value) == Substr(kBase64Alphabet, value, 1)

Base64Value(char) == IF char = kBase64Pad THEN 0 ELSE Find(kBase64Alphabet, char, 0)

\* A faulty group encoder that leaves the padding out.  C17_Base64RoundTrip
\* tells it from EncodeGroup.
EncodeGroupUnpadded(group) ==
    LET bits == group[1] * 65536 + (IF Len(group) > 1 THEN group[2] * 256 ELSE 0)
                + (IF Len(group) > 2 THEN group[3] ELSE 0)
    IN  Base64Char(bits \div 262144) \o Base64Char((bits \div 4096) % 64)
        \o (IF Len(group) > 1 THEN Base64Char((bits \div 64) % 64) ELSE "")
        \o (IF Len(group) > 2 THEN Base64Char(bits % 64) ELSE "")

\* One to three bytes become four characters: the 24 bits of the group, cut
\* in four 6-bit values; a character that holds no bit of the input is "=".
EncodeGroup(group) ==
    LET bits == group[1] * 65536 + (IF Len(group) > 1 THEN group[2] * 256 ELSE 0)
                + (IF Len(group) > 2 THEN group[3] ELSE 0)
    IN  Base64Char(bits \div 262144) \o Base64Char((bits \div 4096) % 64)
        \o (IF Len(group) > 1 THEN Base64Char((bits \div 64) % 64) ELSE kBase64Pad)
        \o (IF Len(group) > 2 THEN Base64Char(bits % 64) ELSE kBase64Pad)

RECURSIVE encodeToBase64(_)
encodeToBase64(bytes) ==
    IF Len(bytes) = 0 THEN ""
    ELSE IF Len(bytes) <= 3 THEN EncodeGroup(bytes)
    ELSE EncodeGroup(SubSeq(bytes, 1, 3)) \o encodeToBase64(SubSeq(bytes, 4, Len(bytes)))

\* Four characters become the three bytes of their 24 bits, less one byte
\* for each pad character.
DecodeGroup(group) ==
    LET bits == Base64Value(At(group, 0)) * 262144 + Base64Value(At(group, 1)) * 4096
                + Base64Value(At(group, 2)) * 64 + Base64Value(At(group, 3))
        pads == (IF At(group, 2) = kBase64Pad THEN 1 ELSE 0)
                + (IF At(group, 3) = kBase64Pad THEN 1 ELSE 0)
    IN  SubSeq(<<bits \div 65536, (bits \div 256) % 256, bits % 256>>, 1, 3 - pads)

RECURSIVE decodeFromBase64(_)
decodeFromBase64(text) ==
    IF Len(text) = 0 THEN <<>>
    ELSE DecodeGroup(Substr(text, 0, 4)) \o decodeFromBase64(SubstrFrom(text, 4))

\* The names are those of the test Base64EncodeDecode.
InitBase64 ==
    /\ ParserAtRest
    /\ bodyStruct = NotCalled
    /\ apprise = NotCalled
    /\ transfer = NotCalled
    /\ \E bytes \in ByteStrings :
          codec = [pc |-> "encode", deocdedString |-> bytes, encodedString |-> "",
                   redecodedString |-> <<>>]

\* CSMTP::encodeToBase64(deocdedString, encodedString, deocdedString.length())
EncodeToBase64 ==
    /\ codec.pc = "encode"
    /\ codec' = [codec EXCEPT !.pc = "decode",
                              !.encodedString = encodeToBase64(codec.deocdedString)]
    /\ UNCHANGED <<ParserVars, bodyStruct, apprise, transfer>>

\* CSMTP::decodeFromBase64(encodedString, redecodedString, encodedString.length())
DecodeFromBase64 ==
    /\ codec.pc = "decode"
    /\ codec' = [codec EXCEPT !.pc = "done",
                              !.redecodedString = decodeFromBase64(codec.encodedString)]
    /\ UNCHANGED <<ParserVars, bodyStruct, apprise, transfer>>

NextBase64 ==
    \/ EncodeToBase64
    \/ DecodeFromBase64

SpecBase64 == InitBase64 /\ [][NextBase64]_vars

(***************************************************************************)
(* Responses in lower case.  A form is a response a server may send: its   *)
(* command line, its untagged text with the protocol tokens in upper case  *)
(* and with the same tokens in lower case, and the typed response the      *)
(* upper-case text stands for.                                             *)
(***************************************************************************)
CaseForm(commandLine, upperText, lowerText, typed) ==
    [upper |-> commandLine \o "\r\n" \o upperText \o "A1 OK [READ-WRITE] done\r\n",
     lower |-> commandLine \o "\r\n" \o lowerText \o "A1 OK [READ-WRITE] done\r\n",
     typed |-> typed]

Typed(commandCode) == [NewResponse(commandCode) EXCEPT !.status = "OK"]

CaseForms ==
    {CaseForm("A1 SELECT INBOX", "* 3 EXISTS\r\n", "* 3 exists\r\n",
              [Typed("SELECT") EXCEPT !.mailBoxNameStr = "INBOX", !.mailBoxAccessStr = "READ-WRITE",
                                      !.responseMap = "EXISTS" :> "3"]),
     CaseForm("A1 SELECT INBOX", "* 2 RECENT\r\n", "* 2 Recent\r\n",
              [Typed("SELECT") EXCEPT !.mailBoxNameStr = "INBOX", !.mailBoxAccessStr = "READ-WRITE",
                                      !.responseMap = "RECENT" :> "2"]),
     CaseForm("A1 SELECT INBOX", "* OK [UNSEEN 4]\r\n", "* OK [unseen 4]\r\n",
              [Typed("SELECT") EXCEPT !.mailBoxNameStr = "INBOX", !.mailBoxAccessStr = "READ-WRITE",
                                      !.responseMap = "UNSEEN" :> "4"]),
     CaseForm("A1 SELECT INBOX", "* OK [UIDNEXT 9]\r\n", "* ok [uidnext 9]\r\n",
              [Typed("SELECT") EXCEPT !.mailBoxNameStr = "INBOX", !.mailBoxAccessStr = "READ-WRITE",
                                      !.responseMap = "UIDNEXT" :> "9"]),
     CaseForm("A1 SELECT INBOX", "* FLAGS (\\Seen)\r\n", "* flags (\\Seen)\r\n",
              [Typed("SELECT") EXCEPT !.mailBoxNameStr = "INBOX", !.mailBoxAccessStr = "READ-WRITE",
                                      !.responseMap = "FLAGS" :> "(\\Seen)"]),
     CaseForm("A1 EXPUNGE", "* 2 EXPUNGE\r\n", "* 2 expunge\r\n",
              [Typed("EXPUNGE") EXCEPT !.expunged = <<2>>]),
     CaseForm("A1 EXPUNGE", "* 5 EXISTS\r\n", "* 5 Exists\r\n",
              [Typed("EXPUNGE") EXCEPT !.exists = <<5>>]),
     CaseForm("A1 SEARCH ALL", "* SEARCH 2 84\r\n", "* search 2 84\r\n",
              [Typed("SEARCH") EXCEPT !.indexes = <<2, 84>>]),
     CaseForm("A1 CAPABILITY", "* CAPABILITY IMAP4rev1\r\n", "* capability IMAP4rev1\r\n",
              [Typed("CAPABILITY") EXCEPT !.capabilitiesStr = "IMAP4rev1"]),
     CaseForm("A1 LIST \"\" *", "* LIST (\\HasNoChildren) \"/\" \"INBOX\"\r\n",
              "* list (\\HasNoChildren) \"/\" \"INBOX\"\r\n",
              [Typed("LIST") EXCEPT
                  !.mailBoxList = <<[attributesStr |-> "(\\HasNoChildren)", hierDel |-> "/",
                                     mailBoxNameStr |-> "\"INBOX\""]>>]),
     CaseForm("A1 STATUS INBOX (MESSAGES)", "* STATUS INBOX (MESSAGES 23)\r\n",
              "* status INBOX (MESSAGES 23)\r\n",
              [Typed("STATUS") EXCEPT !.mailBoxNameStr = "INBOX",
                                      !.responseMap = "MESSAGES" :> "23"]),
     CaseForm("A1 NOOP", "* 4 EXISTS\r\n", "* 4 exists\r\n", Typed("NOOP")),
     CaseForm("A1 CREATE box", "* BYE\r\n", "* Bye\r\n",
              [Typed("CREATE") EXCEPT !.bBYESent = TRUE]),
     CaseForm("A1 LOGOUT", "* BYE\r\n", "* bye\r\n",
              [Typed("LOGOUT") EXCEPT !.bBYESent = TRUE]),
     CaseForm("A1 STORE 1 +FLAGS (\\Seen)", "* 1 FETCH (FLAGS (\\Seen))\r\n",
              "* 1 fetch (flags (\\Seen))\r\n",
              [Typed("STORE") EXCEPT
                  !.storeList = <<[index |-> 1, flagsListStr |-> "(\\Seen)"]>>]),
     CaseForm("A1 FETCH 1 (FLAGS)", "* 1 FETCH (FLAGS (\\Seen))\r\n",
              "* 1 fetch (FLAGS (\\Seen))\r\n",
              [Typed("FETCH") EXCEPT
                  !.fetchList = <<[index |-> 1, responseMap |-> "FLAGS" :> "(\\Seen)"]>>]),
     CaseForm("A1 FETCH 1 (UID FLAGS)", "* 1 FETCH (UID 7 FLAGS (\\Seen))\r\n",
              "* 1 FETCH (uid 7 flags (\\Seen))\r\n",
              [Typed("FETCH") EXCEPT
                  !.fetchList = <<[index |-> 1,
                                   responseMap |-> ("UID" :> "7") @@ ("FLAGS" :> "(\\Seen)")]>>]),
     CaseForm("A1 FETCH 1 (INTERNALDATE BODY[1])",
              "* 1 FETCH (INTERNALDATE \"d\" BODY[1] {2}\r\nhi)\r\n",
              "* 1 FETCH (internaldate \"d\" body[1] {2}\r\nhi)\r\n",
              [Typed("FETCH") EXCEPT
                  !.fetchList = <<[index |-> 1,
                                   responseMap |-> ("INTERNALDATE" :> "\"d\"")
                                                   @@ ("BODY[1] {2}" :> "hi")]>>])}

\* A call of parseResponse on either text of a form.
InitCase ==
    /\ \E form \in CaseForms : blob \in {form.upper, form.lower}
    /\ stream = NewStream
    /\ pc = "start"
    /\ tagStr = ""
    /\ commandLineStr = ""
    /\ parseFn = ""
    /\ resp = NewResponse("")
    /\ lineStr = ""
    /\ lineLength = 0
    /\ fetchData = NewFetchRespData
    /\ cerr = <<>>
    /\ exception = NoException
    /\ consumed = FALSE
    /\ stringToCodeMap = EmptyMap
    /\ parseCommmandMap = InitialParseCommandMap
    /\ calls = NoCalls
    /\ bodyStruct = NotCalled
    /\ codec = NotCalled
    /\ apprise = NotCalled
    /\ transfer = NotCalled

SpecCase == InitCase /\ [][Next]_vars

(***************************************************************************)
(* CApprise.  One object is shared by the thread that runs watch(), the     *)
(* thread of the user (addWatchFile, removeWatchFile, stop) and the threads *)
(* that call getEvent.  Each thread has a list of the calls it still has to *)
(* make (todo); a call that takes queuedEventsMutex is two steps, the lock  *)
(* and the body that ends with the unlock.  The kernel side of inotify is   *)
(* the set of live watch descriptors (kernel), whether the descriptor is    *)
(* open (fdOpen) and the directories whose IN_DELETE_SELF is still unread.  *)
(***************************************************************************)
\* Most inotify events the kernel produces in a run about files.
MaxInotify == 4

\* Most inotify events the kernel produces in a run about directories, and
\* in a run with threads in getEvent.
MaxQueued == 2

\* Most addWatchFile / removeWatchFile calls of the user in one run.
MaxUserCalls == 2

Threads == {"watch", "user", "c1", "c2"}

Consumers == {"c1", "c2"}

kWatchFolder == "w"

Event(id, message) == [id |-> id, message |-> message]

Inotify(mask, wd, name) == [mask |-> mask, wd |-> wd, name |-> name]

Op(op, id, message) == [op |-> op, id |-> id, message |-> message]

\* The calls that take queuedEventsMutex.
LockOps == {"sendEvent", "stop", "getEvent"}

\* What the kernel reports in the three kinds of run: about two files,
\* about a directory, about one file while threads wait in getEvent.
FileAlphabet ==
    [mask : {"IN_CREATE", "IN_MODIFY", "IN_CLOSE_WRITE"}, name : {"f"}]
        \cup {[mask |-> "IN_MODIFY", name |-> "g"], [mask |-> "IN_DELETE", name |-> "f"],
              [mask |-> "IN_MOVED_TO", name |-> "g"], [mask |-> "IN_IGNORED", name |-> ""],
              [mask |-> "IN_ACCESS", name |-> "f"]}

DirAlphabet ==
    [mask : {"IN_ISDIR|IN_CREATE", "IN_ISDIR|IN_DELETE", "IN_ISDIR|IN_MOVED_FROM"}, name : {"d"}]

QueueAlphabet == {[mask |-> "IN_MODIFY", name |-> "f"], [mask |-> "IN_DELETE", name |-> "f"]}

\* The object after its constructor: CApprise(watchFolder) watches the
\* folder, CApprise(options) watches nothing yet.
NewApprise(watchFolder, alphabet, budget, userCalls, userStops, consumers) ==
    [pc |-> [t \in Threads |-> IF t = "watch" THEN "loop" ELSE "idle"],
     todo |-> [t \in Threads |-> <<>>],
     watchMap |-> IF watchFolder = "" THEN EmptyMap ELSE (1 :> watchFolder),
     kernel |-> IF watchFolder = "" THEN {} ELSE {1},
     unreadSelf |-> {},
     nextWatch |-> IF watchFolder = "" THEN 1 ELSE 2,
     fdOpen |-> TRUE,
     inProcessOfCreation |-> {},
     queuedEvents |-> <<>>,
     bDoWork |-> TRUE,
     thrownException |-> "",
     mutex |-> "",
     escaped |-> "",
     userThrown |-> "",
     inotify |-> <<>>,
     sent |-> <<>>,
     got |-> <<>>,
     alphabet |-> alphabet,
     budget |-> budget,
     userCalls |-> userCalls,
     userStops |-> userStops,
     consumers |-> consumers]

OtherThanApprise == <<ParserVars, bodyStruct, codec, transfer>>

InitAppriseWith(configs) ==
    /\ ParserAtRest
    /\ bodyStruct = NotCalled
    /\ codec = NotCalled
    /\ transfer = NotCalled
    /\ apprise \in configs

FileRun == NewApprise(kWatchFolder, FileAlphabet, MaxInotify, 0, 0, {})

DirRun == NewApprise("", DirAlphabet, MaxQueued, MaxUserCalls, 0, {})

QueueRun == NewApprise(kWatchFolder, QueueAlphabet, MaxQueued, 0, 1, Consumers)

InitApprise == InitAppriseWith({FileRun, DirRun, QueueRun})

InitQueue == InitAppriseWith({QueueRun})

StripSlash(filePath) ==
    IF At(filePath, Len(filePath) - 1) = "/" THEN PopBack(filePath) ELSE filePath

\* The thread t starts on the calls ops; with nothing to do the watch thread
\* is back at the test of its loop and any other thread is back at its caller.
Rest(t) == IF t = "watch" THEN "loop" ELSE "idle"

Begin(a, t, ops) ==
    [a EXCEPT !.todo[t] = ops, !.pc[t] = IF ops = <<>> THEN Rest(t) ELSE "run"]

Advance(a, t) == Begin(a, t, Tail(a.todo[t]))

\* An exception thrown in the call of context ctx.  Inside the try block of
\* watch() the handler queues Event_error and keeps the exception; the stop()
\* after the handlers is outside the try block; an exception in a call of the
\* user goes to the user.
Throw(a, t, ctx, what) ==
    IF ctx = "try"
    THEN Begin(a, t, <<Op("sendEvent", "Event_error", what), Op("setThrown", "", what),
                       Op("after", "", "")>>)
    ELSE IF ctx = "final"
    THEN [a EXCEPT !.todo[t] = <<>>, !.pc[t] = "escaped", !.escaped = what]
    ELSE [a EXCEPT !.todo[t] = <<>>, !.pc[t] = "idle", !.userThrown = what]

\* queuedEventsWaiting.notify_one(): one of the threads blocked in wait, if
\* there is one, is made runnable; it has to take the mutex again.
Waiting(a) == {c \in Consumers : a.pc[c] = "waiting"}

NotifyOne(a) ==
    IF Waiting(a) = {} THEN {a} ELSE {[a EXCEPT !.pc[c] = "run"] : c \in Waiting(a)}

\* inotify_rm_watch(inotifyFd, watch): "" or the errno of the failure.
RmWatchResult(a, watch) ==
    IF ~a.fdOpen THEN "EBADF" ELSE IF watch \notin a.kernel THEN "EINVAL" ELSE ""

\* destroyWatchTable: remove every watch of the map, then close inotifyFd;
\* the first call that fails throws.
FailingWatches(a) == {wd \in DOMAIN a.watchMap : RmWatchResult(a, wd) # ""}

destroyWatchTable(a) ==
    IF FailingWatches(a) # {}
    THEN LET bad == CHOOSE wd \in FailingWatches(a) : \A o \in FailingWatches(a) : wd <= o
         IN  [a |-> [a EXCEPT !.kernel = @ \ {wd \in DOMAIN a.watchMap : wd < bad}],
              what |-> "inotify_rm_watch() error"]
    ELSE IF ~a.fdOpen
    THEN [a |-> a, what |-> "inotify close() error"]
    ELSE [a |-> [a EXCEPT !.kernel = {}, !.unreadSelf = {}, !.fdOpen = FALSE], what |-> ""]

\* A watcher that keeps no record of the files being created.
BeingCreatedNever(a, filePath) == FALSE

\* inProcessOfCreation.find(filePath) != inProcessOfCreation.end()
BeingCreated(a, filePath) == filePath \in a.inProcessOfCreation

\* The calls the watch loop makes for one inotify event.
ProcessEvent(a, event) ==
    LET path == MapIndex(a.watchMap, event.wd, "")[event.wd]
        filePath == IF Len(event.name) > 0 THEN path \o "/" \o event.name ELSE path
        beingCreated == BeingCreated(a, filePath)
        b == [a EXCEPT !.watchMap = MapIndex(@, event.wd, ""),
                       !.inotify = Append(@, [event EXCEPT !.name = filePath])]
    IN  CASE event.mask = "IN_CREATE" ->
                Begin([b EXCEPT !.inProcessOfCreation = @ \cup {filePath}], "watch", <<>>)
          [] event.mask = "IN_MODIFY" ->
                Begin(b, "watch", IF beingCreated THEN <<>>
                                  ELSE <<Op("sendEvent", "Event_change", filePath)>>)
          [] event.mask \in {"IN_ISDIR|IN_CREATE", "IN_ISDIR|IN_MOVED_TO"} ->
                Begin(b, "watch", <<Op("sendEvent", "Event_addir", filePath),
                                    Op("addWatch", "try", filePath)>>)
          [] event.mask = "IN_ISDIR|IN_DELETE" ->
                Begin(b, "watch", <<Op("sendEvent", "Event_unlinkdir", filePath)>>)
          [] event.mask \in {"IN_ISDIR|IN_MOVED_FROM", "IN_DELETE_SELF"} ->
                Begin(b, "watch", <<Op("removeWatch", "try", filePath)>>)
          [] event.mask = "IN_DELETE" ->
                Begin(b, "watch", <<Op("sendEvent", "Event_unlink", filePath)>>)
          [] event.mask = "IN_MOVED_TO" ->
                Begin(b, "watch", <<Op("sendEvent", "Event_add", filePath)>>)
          [] event.mask = "IN_CLOSE_WRITE" ->
                IF beingCreated
                THEN Begin([b EXCEPT !.inProcessOfCreation = @ \ {filePath}], "watch",
                           <<Op("sendEvent", "Event_add", filePath)>>)
                ELSE Begin(b, "watch", <<Op("sendEvent", "Event_change", filePath)>>)
          [] OTHER -> Begin(b, "watch", <<>>)

\* while (bDoWork.load()); after the loop stop() is called only if bDoWork
\* is still set, which it is not when the loop ends by its test.
WatchLoop ==
    /\ apprise.pc["watch"] = "loop"
    /\ apprise' = [apprise EXCEPT !.pc["watch"] = IF apprise.bDoWork THEN "read" ELSE "returned"]
    /\ UNCHANGED OtherThanApprise

\* The inotify events read() can return: one of the alphabet about a live
\* watch, or the IN_DELETE_SELF of a deleted directory.
Readable(a) ==
    {Inotify(e.mask, wd, e.name) : e \in (IF a.budget > 0 THEN a.alphabet ELSE {}),
                                   wd \in a.kernel \cap DOMAIN a.watchMap}
        \cup {Inotify("IN_DELETE_SELF", wd, "") : wd \in a.unreadSelf}

ReadEvent ==
    /\ apprise.pc["watch"] = "read"
    /\ apprise.fdOpen
    /\ \E event \in Readable(apprise) :
          LET a == IF event.mask = "IN_DELETE_SELF"
                   THEN [apprise EXCEPT !.unreadSelf = @ \ {event.wd}]
                   ELSE [apprise EXCEPT !.budget = @ - 1]
          IN  apprise' = IF event.mask = "IN_IGNORED" THEN Begin(a, "watch", <<>>)
                         ELSE ProcessEvent(a, event)
    /\ UNCHANGED OtherThanApprise

\* read() returns -1: interrupted, or on a descriptor stop() has closed.  A
\* read that began before the close may also return the IN_IGNORED events of
\* the removed watches.
ReadError ==
    /\ apprise.pc["watch"] = "read"
    /\ \/ /\ apprise.fdOpen
          /\ apprise.budget > 0
          /\ apprise' = Throw([apprise EXCEPT !.budget = @ - 1], "watch", "try",
                              "inotify read() error")
       \/ /\ ~apprise.fdOpen
          /\ apprise' \in {Throw(apprise, "watch", "try", "inotify read() error"),
                           Begin(apprise, "watch", <<>>)}
    /\ UNCHANGED OtherThanApprise

\* A watched directory is deleted: the kernel drops its watch and queues
\* IN_DELETE_SELF for it.
DeleteDirectory ==
    /\ apprise.pc["watch"] \notin {"returned", "escaped"}
    /\ apprise.alphabet = DirAlphabet
    /\ apprise.budget > 0
    /\ \E wd \in apprise.kernel :
          apprise' = [apprise EXCEPT !.kernel = @ \ {wd}, !.unreadSelf = @ \cup {wd},
                                     !.budget = @ - 1]
    /\ UNCHANGED OtherThanApprise

\* std::unique_lock<std::mutex> locker(queuedEventsMutex)
Acquire(t) ==
    /\ apprise.pc[t] = "run"
    /\ Head(apprise.todo[t]).op \in LockOps
    /\ apprise.mutex = ""
    /\ apprise' = [apprise EXCEPT !.mutex = t, !.pc[t] = "locked"]
    /\ UNCHANGED OtherThanApprise

Release(a) == [a EXCEPT !.mutex = ""]

sendEvent(t) ==
    /\ apprise.pc[t] = "locked"
    /\ Head(apprise.todo[t]).op = "sendEvent"
    /\ LET op == Head(apprise.todo[t])
           evt == Event(op.id, op.message)
           a == [apprise EXCEPT !.queuedEvents = Append(@, evt), !.sent = Append(@, evt)]
       IN  apprise' \in {Release(Advance(b, t)) : b \in NotifyOne(a)}
    /\ UNCHANGED OtherThanApprise

stop(t) ==
    /\ apprise.pc[t] = "locked"
    /\ Head(apprise.todo[t]).op = "stop"
    /\ \E b \in NotifyOne([apprise EXCEPT !.bDoWork = FALSE]) :
          LET destroyed == destroyWatchTable(b)
              ctx == Head(apprise.todo[t]).id
          IN  apprise' = IF destroyed.what = ""
                         THEN Release(Advance(destroyed.a, t))
                         ELSE Release(Throw(destroyed.a, t, ctx, destroyed.what))
    /\ UNCHANGED OtherThanApprise

\* The value of the local variable watch of removeWatch when the loop over
\* the map has not assigned it: it is not initialised.
IndeterminateWatches(a) == {0, 99} \cup DOMAIN a.watchMap

\* After the try block of removeWatch: stop() when the map is empty.
AfterRemove(a, t, ctx) ==
    Begin(a, t, (IF DOMAIN a.watchMap = {} THEN <<Op("stop", ctx, "")>> ELSE <<>>)
                    \o Tail(a.todo[t]))

removeWatch(a, t, ctx, filePath, garbage) ==
    LET found == {wd \in DOMAIN a.watchMap : a.watchMap[wd] = filePath}
        watch == IF found # {} THEN CHOOSE wd \in found : \A o \in found : wd <= o
                 ELSE garbage
        result == RmWatchResult(a, watch)
        erased == [a EXCEPT !.watchMap = [wd \in DOMAIN @ \ {watch} |-> @[wd]],
                            !.kernel = IF result = "" THEN @ \ {watch} ELSE @]
    IN  IF watch = 0 THEN AfterRemove(a, t, ctx)
        ELSE IF result \in {"", "EINVAL"} THEN AfterRemove(erased, t, ctx)
        ELSE Throw(erased, t, ctx, "inotify_rm_watch() error")

\* inotify_add_watch fails on a closed descriptor, and may fail on an open
\* one (the path is gone, the watch limit is reached); a path that is
\* watched already gets the descriptor it has.
addWatch(a, t, ctx, filePath, ok) ==
    LET fileName == StripSlash(filePath)
        has == {wd \in a.kernel \cap DOMAIN a.watchMap : a.watchMap[wd] = fileName}
        watch == IF has # {} THEN CHOOSE wd \in has : TRUE ELSE a.nextWatch
    IN  IF ok /\ a.fdOpen
        THEN Advance([a EXCEPT !.watchMap = MapInsert(@, watch, fileName),
                               !.kernel = @ \cup {watch},
                               !.nextWatch = IF has # {} THEN @ ELSE @ + 1], t)
        ELSE Throw(a, t, ctx, "inotify_add_watch() error")

\* A call, or the rest of watch(), that does not take the mutex.
Local(t) ==
    /\ apprise.pc[t] = "run"
    /\ Head(apprise.todo[t]).op \notin LockOps
    /\ LET op == Head(apprise.todo[t])
       IN  CASE op.op = "addWatch" ->
                   \E ok \in BOOLEAN : apprise' = addWatch(apprise, t, op.id, op.message, ok)
             [] op.op = "removeWatch" ->
                   \E garbage \in IndeterminateWatches(apprise) :
                      apprise' = removeWatch(apprise, t, op.id, op.message, garbage)
             [] op.op = "setThrown" ->
                   apprise' = Advance([apprise EXCEPT !.thrownException = op.message], t)
             [] op.op = "after" ->
                   apprise' = IF apprise.bDoWork
                              THEN Begin(apprise, t, <<Op("stop", "final", ""), Op("return", "", "")>>)
                              ELSE [apprise EXCEPT !.todo[t] = <<>>, !.pc[t] = "returned"]
             [] op.op = "return" ->
                   apprise' = [apprise EXCEPT !.todo[t] = <<>>, !.pc[t] = "returned"]
    /\ UNCHANGED OtherThanApprise

UserPaths == {"w", "w/", "v"}

addWatchFile ==
    /\ apprise.pc["user"] = "idle"
    /\ apprise.userCalls > 0
    /\ \E filePath \in UserPaths :
          apprise' = Begin([apprise EXCEPT !.userCalls = @ - 1, !.userThrown = ""], "user",
                           <<Op("addWatch", "user", filePath)>>)
    /\ UNCHANGED OtherThanApprise

removeWatchFile ==
    /\ apprise.pc["user"] = "idle"
    /\ apprise.userCalls > 0
    /\ \E filePath \in UserPaths :
          apprise' = Begin([apprise EXCEPT !.userCalls = @ - 1, !.userThrown = ""], "user",
                           <<Op("removeWatch", "user", filePath)>>)
    /\ UNCHANGED OtherThanApprise

UserStop ==
    /\ apprise.pc["user"] = "idle"
    /\ apprise.userStops > 0
    /\ apprise' = Begin([apprise EXCEPT !.userStops = @ - 1, !.userThrown = ""], "user",
                        <<Op("stop", "user", "")>>)
    /\ UNCHANGED OtherThanApprise

\* A thread calls getEvent; it stops calling once it was given Event_none.
GetEventCall(c) ==
    /\ c \in apprise.consumers
    /\ apprise.pc[c] = "idle"
    /\ apprise' = Begin(apprise, c, <<Op("getEvent", "", "")>>)
    /\ UNCHANGED OtherThanApprise

\* A getEvent that does not wait.
WaitPredicateNone(a) == TRUE

\* The predicate of queuedEventsWaiting.wait in getEvent.
WaitPredicate(a) == a.queuedEvents # <<>> \/ ~a.bDoWork

\* getEvent with the mutex held: wait releases the mutex and blocks while
\* the queue is empty and bDoWork is set, else the front of the queue, or
\* Event_none, is returned.
getEvent(c) ==
    /\ apprise.pc[c] = "locked"
    /\ Head(apprise.todo[c]).op = "getEvent"
    /\ apprise' =
          IF ~WaitPredicate(apprise)
          THEN Release([apprise EXCEPT !.pc[c] = "waiting"])
          ELSE IF apprise.queuedEvents # <<>>
          THEN Release([apprise EXCEPT
                   !.got = Append(@, [thread |-> c, evt |-> Head(apprise.queuedEvents)]),
                   !.queuedEvents = Tail(@), !.todo[c] = <<>>, !.pc[c] = "idle"])
          ELSE Release([apprise EXCEPT
                   !.got = Append(@, [thread |-> c, evt |-> Event("Event_none", "")]),
                   !.todo[c] = <<>>, !.pc[c] = "finished"])
    /\ UNCHANGED OtherThanApprise

\* A condition variable may wake a waiting thread without a notify.
SpuriousWake(c) ==
    /\ apprise.pc[c] = "waiting"
    /\ apprise' = [apprise EXCEPT !.pc[c] = "run"]
    /\ UNCHANGED OtherThanApprise

WatchTableCalls == addWatchFile \/ removeWatchFile \/ DeleteDirectory

ThreadStep(t) == Acquire(t) \/ sendEvent(t) \/ stop(t) \/ Local(t) \/ getEvent(t)

ProgramSteps == WatchLoop \/ ReadEvent \/ ReadError \/ \E t \in Threads : ThreadStep(t)

NextQueue ==
    \/ ProgramSteps
    \/ UserStop
    \/ \E c \in Consumers : GetEventCall(c)
    \/ \E c \in Consumers : SpuriousWake(c)

NextApprise == NextQueue \/ WatchTableCalls

SpecApprise == InitApprise /\ [][NextApprise]_vars

\* A run with threads in getEvent on its own, and the same with a scheduler
\* that lets every thread that can take a step take one.  A thread that asks
\* for the mutex gets it if the mutex is free again and again (no thread is
\* starved by the others re-taking it); a thread blocked in wait runs only
\* once it is notified: a wake-up without a notify may happen, nothing
\* promises it.  What the kernel reports, and what the user and the callers
\* of getEvent choose to call, is not forced.
SpecQueue == InitQueue /\ [][NextQueue]_vars

FairQueue ==
    /\ SpecQueue
    /\ WF_vars(WatchLoop)
    /\ \A t \in Threads : SF_vars(Acquire(t))
    /\ \A t \in Threads : WF_vars(sendEvent(t) \/ stop(t) \/ Local(t) \/ getEvent(t))

(***************************************************************************)
(* File transfer utilities.  transfer holds one call: FTP getFiles, SFTP    *)
(* putFiles or SCP getFile, with the part of the local or remote file       *)
(* system the call works on and what the server answered so far.            *)
(***************************************************************************)
\* Most files in the file list of a getFiles / putFiles call.
MaxFiles == 2

OtherThanTransfer == <<ParserVars, bodyStruct, codec, apprise>>

InitTransferWith(calls_) ==
    /\ ParserAtRest
    /\ bodyStruct = NotCalled
    /\ codec = NotCalled
    /\ apprise = NotCalled
    /\ transfer \in calls_

FileLists(files) == UNION {[1..n -> files] : n \in 0..MaxFiles}

(***************************************************************************)
(* Antik::FTP::getFiles.  The server has the files a and a~ and the        *)
(* directory d; the local directory l may hold older copies of the files.   *)
(* local maps a local file name to what the file holds, "" for no file.     *)
(***************************************************************************)
kPostFix == "~"

FtpFiles == {"a", "a~", "d"}

FtpStatusCodes == {226, 550}

\* destination = localDirectory / file
Destination(localDirectory, file) == localDirectory \o "/" \o file

LocalNames == {Destination("l", file) \o s : file \in {"a", "a~"}, s \in {"", kPostFix}}

LocalFileSystems ==
    {[name \in LocalNames |-> IF name \in old THEN "old" ELSE ""] :
        old \in SUBSET {Destination("l", "a"), Destination("l", "a~")}}

GetFilesCalls ==
    [call : {"getFiles"}, pc : {"loop"}, localDirectory : {"l"}, fileList : FileLists(FtpFiles),
     safe : BOOLEAN, index : {1}, local : LocalFileSystems, successList : {<<>>},
     transfers : {<<>>}]

\* ftpServer.isDirectory(file)
isDirectory(file) == file = "d"

\* A getFiles that takes every transfer for a success.
TransferOkAlways(statusCode) == TRUE

\* statusCode == 226
TransferOk(statusCode) == statusCode = 226

\* ftpServer.getFile(file, localFilePath) with the status code it returns: a
\* completed transfer leaves the file's data in the local file, a failed one
\* leaves the local file as it was or with a part of the data.
FtpGetFile(local, file, localFilePath, statusCode, partial) ==
    IF statusCode = 226 THEN [local EXCEPT ![localFilePath] = "new:" \o file]
    ELSE IF partial THEN [local EXCEPT ![localFilePath] = "part:" \o file]
    ELSE local

\* fs::rename(from, to)
Rename(local, from, to) ==
    IF from = to THEN local ELSE [local EXCEPT ![to] = local[from], ![from] = ""]

\* One turn of the loop of getFiles over fileList.
GetFilesFile ==
    /\ transfer.call = "getFiles"
    /\ transfer.pc = "loop"
    /\ transfer.index <= Len(transfer.fileList)
    /\ LET file == transfer.fileList[transfer.index]
           destination == Destination(transfer.localDirectory, file)
           withPostFix == destination \o kPostFix
           destinationFileName == IF transfer.safe THEN withPostFix ELSE PopBack(withPostFix)
       IN  IF isDirectory(file)
           THEN transfer' = [transfer EXCEPT !.successList = Append(@, file),
                                             !.index = @ + 1]
           ELSE \E statusCode \in FtpStatusCodes, partial \in BOOLEAN :
                   LET got == FtpGetFile(transfer.local, file, destinationFileName,
                                         statusCode, partial)
                       done == [file |-> file, localFilePath |-> destinationFileName,
                                statusCode |-> statusCode]
                   IN  transfer' =
                          IF TransferOk(statusCode)
                          THEN [transfer EXCEPT
                                   !.local = IF transfer.safe
                                             THEN Rename(got, destinationFileName, destination)
                                             ELSE got,
                                   !.successList = Append(@, file),
                                   !.transfers = Append(@, done),
                                   !.index = @ + 1]
                          ELSE [transfer EXCEPT !.local = got,
                                                !.transfers = Append(@, done),
                                                !.index = @ + 1]
    /\ UNCHANGED OtherThanTransfer

\* return (successList)
GetFilesReturn ==
    /\ transfer.call = "getFiles"
    /\ transfer.pc = "loop"
    /\ transfer.index > Len(transfer.fileList)
    /\ transfer' = [transfer EXCEPT !.pc = "returned"]
    /\ UNCHANGED OtherThanTransfer

(***************************************************************************)
(* Antik::SSH::putFiles (SFTP).  The local directory l holds the regular    *)
(* files l/a and l/s/b and the directory l/s; l/x does not exist.  The      *)
(* server has the directory r.  remoteFiles is the set of files on the      *)
(* server, uploads the uploads that completed, each with the path the file  *)
(* has on the server and the entry appended to successList for it.          *)
(***************************************************************************)
kServerPathSep == "/"

SftpFiles == {"l/a", "l/s", "l/s/b", "l/x"}

LocalRegularFiles == {"l/a", "l/s/b"}

LocalDirectories == {"l", "l/s"}

PutFilesCalls ==
    [call : {"putFiles"}, pc : {"loop"}, localDirectory : {"l", "l/"}, remoteDirectory : {"r/"},
     fileList : FileLists(SftpFiles), safe : BOOLEAN, index : {1}, remoteDirs : {{"r"}},
     remoteFiles : {{}}, successList : {<<>>}, completed : {<<>>}, uploads : {<<>>}]

\* fs::path::parent_path and fs::path::filename
parent_path(filePath) == Substr(filePath, 0, FindLastOf(filePath, kServerPathSep))

filename(filePath) == SubstrFrom(filePath, FindLastOf(filePath, kServerPathSep) + 1)

\* pathExists(sftpServer, remotePath)
PathExists(call, remotePath) == StripSlash(remotePath) \in call.remoteDirs

\* successList.push_back(entry); if (completionFn) completionFn(successList.back())
Completed(call, entry) ==
    [call EXCEPT !.successList = Append(@, entry), !.completed = Append(@, entry)]

\* The exception handlers of putFiles: report, and return successList.
PutFilesCaught(call) == [call EXCEPT !.pc = "returned"]

\* One turn of the loop of putFiles over fileList; putOk and renameOk say
\* whether putFile and renameFile succeed or throw.
PutFilesFile ==
    /\ transfer.call = "putFiles"
    /\ transfer.pc = "loop"
    /\ transfer.index <= Len(transfer.fileList)
    /\ \E putOk \in BOOLEAN, renameOk \in BOOLEAN :
          LET file == transfer.fileList[transfer.index]
              localPathLength ==
                  Len(transfer.localDirectory)
                     + (IF At(transfer.localDirectory, Len(transfer.localDirectory) - 1)
                              # kServerPathSep THEN 1 ELSE 0)
              transferFile == file \in LocalRegularFiles
              localPath == IF transferFile THEN parent_path(file) \o kServerPathSep ELSE file
              fullRemotePath == transfer.remoteDirectory \o SubstrFrom(localPath, localPathLength)
              next == [transfer EXCEPT !.index = @ + 1]
              made == IF PathExists(transfer, fullRemotePath) THEN next
                      ELSE Completed([next EXCEPT !.remoteDirs = @ \cup {StripSlash(fullRemotePath)}],
                                     fullRemotePath)
              withPostFix == fullRemotePath \o filename(file) \o kPostFix
              destinationFileName == IF transfer.safe THEN withPostFix ELSE PopBack(withPostFix)
              renamed == Substr(destinationFileName, 0, Len(destinationFileName) - 1)
              entry == Substr(destinationFileName, 0, Len(destinationFileName) - 1)
              put == [made EXCEPT !.remoteFiles = @ \cup {destinationFileName}]
              moved == [put EXCEPT !.remoteFiles = (@ \ {destinationFileName}) \cup {renamed}]
              remotePath == IF transfer.safe THEN renamed ELSE destinationFileName
              uploaded(c) == [c EXCEPT !.uploads = Append(@, [file |-> file,
                                                             remotePath |-> remotePath,
                                                             entry |-> entry])]
          IN  transfer' =
                 IF file \notin LocalRegularFiles \cup LocalDirectories THEN next
                 ELSE IF ~transferFile THEN made
                 ELSE IF ~putOk THEN PutFilesCaught(made)
                 ELSE IF ~transfer.safe THEN uploaded(Completed(put, entry))
                 ELSE IF ~renameOk THEN PutFilesCaught(put)
                 ELSE uploaded(Completed(moved, entry))
    /\ UNCHANGED OtherThanTransfer

PutFilesReturn ==
    /\ transfer.call = "putFiles"
    /\ transfer.pc = "loop"
    /\ transfer.index > Len(transfer.fileList)
    /\ transfer' = [transfer EXCEPT !.pc = "returned"]
    /\ UNCHANGED OtherThanTransfer

(***************************************************************************)
(* Antik::SSH::getFile (SCP), from the loop that copies the file on: the   *)
(* request was accepted, size is the file size the server announced and     *)
(* fileSize the counter of the loop.  The server sends no more than the     *)
(* file; the remote end may close the channel at any time, after which      *)
(* every read returns 0.                                                    *)
(***************************************************************************)
\* Largest file size of a getFile call.
MaxFileSize == 4

\* Most bytes one scpServer.read returns.
IoBufferSize == 2

\* Most error results scpServer.read returns in one call.
MaxErrors == 1

ScpGetFileCalls ==
    [call : {"getFile"}, pc : {"loop"}, size : 0..MaxFileSize, fileSize : 0..MaxFileSize,
     written : {0}, channel : {"open"}, errors : {0}]

\* What scpServer.read can return: a full or short read of the bytes
\* still to come, 0, or the error result -1 (SSH_ERROR).
ReadResults(call) ==
    IF call.channel = "closed" THEN {0}
    ELSE {n \in 0..IoBufferSize : n <= call.size - call.written}
            \cup (IF call.errors < MaxErrors THEN {-1} ELSE {})

\* if (fileSize == 0) break;
LoopEnds(fileSize) == fileSize = 0

\* One turn of the copy loop: read, write bytesRead bytes to the local file
\* (none for a count that is not positive), fileSize -= bytesRead.
ScpRead ==
    /\ transfer.call = "getFile"
    /\ transfer.pc = "loop"
    /\ \E bytesRead \in ReadResults(transfer) :
          LET fileSize == transfer.fileSize - bytesRead
          IN  transfer' = [transfer EXCEPT
                  !.written = IF bytesRead > 0 THEN @ + bytesRead ELSE @,
                  !.fileSize = fileSize,
                  !.errors = IF bytesRead < 0 THEN @ + 1 ELSE @,
                  !.pc = IF LoopEnds(fileSize) THEN "returned" ELSE "loop"]
    /\ UNCHANGED OtherThanTransfer

\* The remote end closes the channel.
ScpChannelClosed ==
    /\ transfer.call = "getFile"
    /\ transfer.pc = "loop"
    /\ transfer.channel = "open"
    /\ transfer' = [transfer EXCEPT !.channel = "closed"]
    /\ UNCHANGED OtherThanTransfer

InitTransfer ==
    InitTransferWith(GetFilesCalls \cup PutFilesCalls
                        \cup {c \in ScpGetFileCalls : c.fileSize = c.size})

NextTransfer ==
    \/ GetFilesFile
    \/ GetFilesReturn
    \/ PutFilesFile
    \/ PutFilesReturn
    \/ ScpRead
    \/ ScpChannelClosed

SpecTransfer == InitTransfer /\ [][NextTransfer]_vars

\* The same with a getFile that goes on reading: a turn of the copy loop that
\* can change something is taken.
FairTransfer == SpecTransfer /\ WF_vars(ScpRead)

(***************************************************************************)
(* Properties.  The text of the blob is read here directly, not through    *)
(* the stream of the parser.                                               *)
(***************************************************************************)
\* The line of the blob that starts at position pos, without its "\r\n".
LineAt(data, pos) ==
    LET eol == Find(data, kEOLStr, pos)
    IN  IF eol = NPOS THEN SubstrFrom(data, pos) ELSE Substr(data, pos, eol - pos)

\* The blob after its echoed command line (it starts with the "\r\n" that
\* ends the command line).
ResponseText == SubstrFrom(blob, Len(LineAt(blob, 0)))

\* sub occurs in text.
Occurs(text, sub) == \E i \in 0..(Len(text) - Len(sub)) : Substr(text, i, Len(sub)) = sub

\* The response holds a line that starts with prefix.
HasLine(prefix) == Occurs(ResponseText, kEOLStr \o prefix)

\* text ends at position pos of the blob, as a whole line with its "\r\n".
LineEndsAt(text, pos) ==
    /\ pos >= Len(text) + Len(kEOLStr)
    /\ Substr(blob, pos - Len(text) - Len(kEOLStr), Len(text) + Len(kEOLStr)) = text \o kEOLStr

StripCR(text) == IF At(text, Len(text) - 1) = "\r" THEN PopBack(text) ELSE text

\* The response holds a tagged OK, NO or BAD line of the command.
HasTaggedStatusLine ==
    \/ HasLine(tagStr \o kSPACE \o kOKStr)
    \/ HasLine(tagStr \o kSPACE \o kNOStr)
    \/ HasLine(tagStr \o kSPACE \o kBADStr)

\* C1: every response parseResponse returns, for any command, has a status
\* that is OK, NO or BAD, set from a tagged status line of the blob; it is
\* never returned with the status no line has set.  (Stated for the blobs
\* that hold a tagged status line of the command; C7 is about the others.)
C1_StatusIsSet ==
    (pc = "returned" /\ HasTaggedStatusLine) => resp.status \in {"OK", "NO", "BAD"}

\* The number N of a "{N}" that ends label.
LiteralCount(label) ==
    LET open == FindLastOf(label, "{")
    IN  DecValue(Substr(label, open + 1, Len(label) - open - 2))

C3_ByeIsSeen ==
    HasLine(Untagged(kBYEStr)) =>
        /\ (pc = "thrown" /\ exception.what = "IMAP command") => ~IsUntaggedBYE(exception.lineStr)
        /\ pc = "returned" => resp.bBYESent

\* C4: when the blob's only response line is the tagged "<tag> NO ..." or
\* "<tag> BAD ..." line of the command, parseResponse throws nothing and
\* returns a response whose status is NO (BAD) and whose error message is
\* that line.
C4_TaggedNoOrBad ==
    LET L == LineAt(blob, Len(commandLineStr) + Len(kEOLStr))
    IN  (/\ pc \in {"returned", "thrown"}
         /\ blob = commandLineStr \o kEOLStr \o L \o kEOLStr
         /\ IsTaggedNO(tagStr, L) \/ IsTaggedBAD(tagStr, L))
        => /\ pc = "returned"
           /\ resp.status = IF IsTaggedNO(tagStr, L) THEN "NO" ELSE "BAD"
           /\ resp.errorMessageStr = L

\* One of the six lines status handling accepts.
IsStatusForm(tag, text) ==
    \/ IsTaggedOK(tag, text)
    \/ IsTaggedNO(tag, text)
    \/ IsTaggedBAD(tag, text)
    \/ IsUntaggedBYE(text)
    \/ IsUntaggedNOorBAD(text)

\* text starts with the tag of the command and a blank.
HasOwnTag(tag, text) == Substr(text, 0, Len(tag) + 1) = tag \o kSPACE

\* C5: in every parse routine, when a line is read that the routine does not
\* take as payload of its command and that is none of "<tag> OK", "<tag> NO",
\* "<tag> BAD" (with the tag of the command), "* BYE", "* NO", "* BAD", the
\* call ends with the exception and the response is left as it was; and the
\* status changes only on a line that carries the tag of the command.
C5_UnrecognisedLineFails ==
    [][(pc = "lines" /\ pc' # "returned") =>
          LET L == LineAt(blob, stream.pos)
          IN  /\ (~consumed' /\ ~IsStatusForm(tagStr, L)) =>
                    (pc' = "thrown" /\ exception'.what = "IMAP command" /\ resp' = resp)
              /\ resp'.status # resp.status => HasOwnTag(tagStr, L)]_vars

\* C5, witness: the completion of another command, "A10 OK ...", has ended
\* the call with the exception, and the status is not set.
C5_OtherTagRejected ==
    /\ pc = "thrown"
    /\ exception = [what |-> "IMAP command", lineStr |-> "A10 OK other completed"]
    /\ resp.status = RespCodeNONE

\* The item names parseFETCH recognises.
RecognisedItems ==
    {kBODYSTRUCTUREStr, kENVELOPEStr, kFLAGSStr, kBODYStr, kINTERNALDATEStr, kRFC822SIZEStr,
     kUIDStr, kRFC822HEADERStr, kRFC822Str}

\* The item token text starts with: the characters before the first blank or
\* '['.
ItemToken(text) ==
    LET sp == FindFirstOf(text, " ", 0)
        br == FindFirstOf(text, "[", 0)
        end == IF sp = NPOS THEN br ELSE IF br = NPOS \/ sp < br THEN sp ELSE br
    IN  Substr(text, 0, end)

RecognisedToken(text) == stringToUpper(ItemToken(text)) \in RecognisedItems

KeysRecognised(map) == \A key \in DOMAIN map : RecognisedToken(key)

\* C6: in a FETCH message, an item token that is not a recognised item name
\* stores nothing and clears the line; the cleared line ends the call with
\* the FETCH exception; and every key of every per-message mapping, of the
\* message under way and of those in the response, starts with a recognised
\* item name.
C6_UnknownItemAborts ==
    [][/\ (pc = "item" /\ ~RecognisedToken(lineStr)) =>
              (pc' = "advance" /\ lineStr' = "" /\ fetchData' = fetchData /\ resp' = resp)
       /\ (pc = "advance" /\ lineStr = "") =>
              (pc' = "thrown" /\ exception'.what = "FETCH command" /\ resp' = resp)
       /\ KeysRecognised(fetchData'.responseMap)
       /\ \A i \in 1..Len(resp'.fetchList) : KeysRecognised(resp'.fetchList[i].responseMap)]_vars

\* C6, witness: after a first message (UID and FLAGS) has been stored, the
\* item XYZ of message 3 has ended the call with the FETCH exception.
C6_UnknownItemAborted ==
    /\ pc = "thrown"
    /\ exception.what = "FETCH command"
    /\ fetchData.index = 3
    /\ Len(resp.fetchList) = 1
    /\ DOMAIN resp.fetchList[1].responseMap = {kUIDStr, kFLAGSStr}

\* The number of '(' of text minus the number of its ')'.
OpenCount(text) ==
    Cardinality({i \in 0..(Len(text) - 1) : At(text, i) = "("})
        - Cardinality({i \in 0..(Len(text) - 1) : At(text, i) = ")"})

\* C7: a response is returned only for a blob that holds a tagged OK, NO or
\* BAD line of the command and whose parenthesised lists are all closed; a
\* blob without the tagged line, or with an unclosed list, ends the call with
\* a parse error.
C7_GrammarViolationRaises ==
    pc = "returned" => (HasTaggedStatusLine /\ OpenCount(ResponseText) = 0)

\* C8: the exception of a parse error carries the line that broke the
\* grammar: the exception of status handling the line just read, and the
\* exception of parseFETCH the first line of the message under way (the line
\* "* n FETCH (...", n being the index of that message).
C8_ErrorCarriesLine ==
    /\ (pc = "thrown" /\ exception.what = "IMAP command") =>
           LineEndsAt(exception.lineStr, stream.pos)
    /\ (pc = "thrown" /\ exception.what = "FETCH command") =>
           LET L == StripCR(exception.lineStr)
           IN  /\ Occurs(L, kFETCHStr \o " (")
               /\ HasLine(L \o kEOLStr)
               /\ StrToULL(stringUntaggedNumber(L)) = fetchData.index

\* C9: calls of parseResponse that run in parallel share no mutable state: no
\* call writes a table that a call it overlaps with reads or writes.
C9_NoSharedMutableState ==
    \A t \in Callers : \A u \in calls[t].peers :
        calls[t].writes \cap (calls[u].reads \cup calls[u].writes) = {}

\* The command line without the "UID " that precedes its verb, if any.
WithoutUID(line) ==
    LET start == FindFirstOf(line, " ", 0) + 1
    IN  IF stringEqual(SubstrFrom(line, start), kUIDStr \o kSPACE)
        THEN Substr(line, 0, start) \o SubstrFrom(line, start + Len(kUIDStr) + 1)
        ELSE line

\* The command code a first call of parseResponse gives a command line.
CodeFor(line) ==
    MapIndex(loadStringToCodeMap, stringCommand(line), DefaultCommandCode)[stringCommand(line)]

\* C10: a call whose command line is "<tag> UID V ..." records the command
\* code and enters the parse routine of the command line "<tag> V ..."; a
\* command without an entry in parseCommmandMap is parsed by parseDefault,
\* whose response holds nothing but the status fields.
C10_UIDDispatch ==
    pc # "start" =>
        /\ resp.command = CodeFor(WithoutUID(commandLineStr))
        /\ parseFn = RoutineFor(InitialParseCommandMap, CodeFor(WithoutUID(commandLineStr)))
        /\ resp.command \notin DOMAIN InitialParseCommandMap => parseFn = "parseDefault"
        /\ (pc = "returned" /\ parseFn = "parseDefault") =>
              resp = [NewResponse(resp.command) EXCEPT !.status = resp.status,
                                                       !.errorMessageStr = resp.errorMessageStr,
                                                       !.bBYESent = resp.bBYESent]

\* C10, witness: the call for "A1 uid fetch 1 (flags)" has run parseFETCH,
\* recorded the command FETCH and returned with status OK.
C10_UIDFetchDispatched ==
    /\ pc = "returned"
    /\ commandLineStr = "A1 uid fetch 1 (flags)"
    /\ parseFn = "parseFETCH"
    /\ resp.command = kFETCHStr
    /\ resp.status = "OK"

\* The position of the blob at which the line after the one at pos starts.
NextLine(pos) == pos + Len(LineAt(blob, pos)) + Len(kEOLStr)

\* line starts with prefix (as written, upper case).
StartsWith(line, prefix) == Substr(line, 0, Len(prefix)) = prefix

\* The decimal numbers of text from position pos on, separated by blanks.
RECURSIVE DecimalTokens(_, _)
DecimalTokens(text, pos) ==
    LET p == FindFirstNotOf(text, " ", pos)
    IN  IF p = NPOS \/ ~IsDigit(At(text, p)) THEN <<>>
        ELSE <<DecValue(DigitRun(text, p))>> \o DecimalTokens(text, DigitsEnd(text, p))

\* The numbers of the "* SEARCH" lines of the blob from position pos on.
RECURSIVE SearchNumbers(_)
SearchNumbers(pos) ==
    IF pos >= Len(blob) THEN <<>>
    ELSE LET line == LineAt(blob, pos)
         IN  (IF StartsWith(line, Untagged(kSEARCHStr))
              THEN DecimalTokens(line, Len(Untagged(kSEARCHStr)))
              ELSE <<>>) \o SearchNumbers(NextLine(pos))

\* C11: the indexes of a SEARCH response that is returned are the numbers of
\* the "* SEARCH" lines of the blob, in blob order; a "* SEARCH" line without
\* numbers, or with blanks after its last number, adds no index.
C11_SearchIndexes ==
    (pc = "returned" /\ parseFn = "parseSEARCH") => resp.indexes = SearchNumbers(NextLine(0))

\* line is the untagged "* n keyword" for a decimal number n.
IsUntaggedNumbered(line, keyword) ==
    /\ StartsWith(line, Untagged(""))
    /\ Len(DigitRun(line, Len(Untagged("")))) > 0
    /\ SubstrFrom(line, DigitsEnd(line, Len(Untagged("")))) = kSPACE \o keyword

\* The numbers n of the "* n keyword" lines of the blob from position pos on.
RECURSIVE UntaggedNumbers(_, _)
UntaggedNumbers(keyword, pos) ==
    IF pos >= Len(blob) THEN <<>>
    ELSE LET line == LineAt(blob, pos)
         IN  (IF IsUntaggedNumbered(line, keyword)
              THEN <<DecValue(DigitRun(line, Len(Untagged(""))))>>
              ELSE <<>>) \o UntaggedNumbers(keyword, NextLine(pos))

\* C12: an EXPUNGE response that is returned holds in exists and expunged the
\* numbers of the "* n EXISTS" and "* n EXPUNGE" lines of the blob, in blob
\* order, and nothing else: the tagged completion line adds no entry.
C12_ExpungeNumbers ==
    (pc = "returned" /\ parseFn = "parseEXPUNGE") =>
        /\ resp.exists = UntaggedNumbers(kEXISTSStr, NextLine(0))
        /\ resp.expunged = UntaggedNumbers(kEXPUNGEStr, NextLine(0))

\* The positions of the blob at which a line of the response starts.
ResponseLineStarts ==
    {p \in NextLine(0)..(Len(blob) - 1) : Substr(blob, p - Len(kEOLStr), Len(kEOLStr)) = kEOLStr}

\* The item names of a SELECT response that C13 is about.
SelectItems ==
    {kEXISTSStr, kRECENTStr, kUNSEENStr, kUIDVALIDITYStr, kUIDNEXTStr, kHIGHESTMODSEQStr,
     kFLAGSStr}

\* line is the untagged line that reports item: "* n EXISTS", "* n RECENT",
\* "* FLAGS (...)", or "* OK [ITEM n]".
IsSelectItemLine(line, item) ==
    IF item \in {kEXISTSStr, kRECENTStr} THEN IsUntaggedNumbered(line, item)
    ELSE IF item = kFLAGSStr THEN StartsWith(line, Untagged(kFLAGSStr) \o " (")
    ELSE StartsWith(line, Untagged(kOKStr) \o " [" \o item \o kSPACE)

\* What the item line reports: its number, or its parenthesised list.
SelectItemValue(line, item) ==
    IF item \in {kEXISTSStr, kRECENTStr} THEN DigitRun(line, Len(Untagged("")))
    ELSE IF item = kFLAGSStr
    THEN Substr(line, FindFirstOf(line, "(", 0),
                FindLastOf(line, ")") - FindFirstOf(line, "(", 0) + 1)
    ELSE LET from == Len(Untagged(kOKStr) \o " [" \o item \o kSPACE)
         IN  Substr(line, from, FindFirstOf(line, "]", from) - from)

\* The positions of the lines of the response that report item.
SelectItemLines(item) == {p \in ResponseLineStarts : IsSelectItemLine(LineAt(blob, p), item)}

\* C13: in a SELECT/EXAMINE response that is returned, each of EXISTS, RECENT,
\* UNSEEN, UIDVALIDITY, UIDNEXT, HIGHESTMODSEQ and FLAGS is in the mapping
\* exactly when the blob holds its untagged line, with the number or list of
\* that line (of the first, when there are several) as its value, in whatever
\* order the lines come; no tagged status line is taken for an item.
C13_SelectItems ==
    (pc = "returned" /\ parseFn = "parseSELECT") =>
        \A item \in SelectItems :
            /\ item \in DOMAIN resp.responseMap <=> SelectItemLines(item) # {}
            /\ SelectItemLines(item) # {} =>
                  LET first == CHOOSE p \in SelectItemLines(item) :
                                   \A q \in SelectItemLines(item) : p <= q
                  IN  resp.responseMap[item] = SelectItemValue(LineAt(blob, first), item)

\* The entries K -> V of the text "K1 V1 ... Kn Vn" from position pos on,
\* added to map; an entry whose key is already there is not replaced.
RECURSIVE StatusPairs(_, _, _)
StatusPairs(text, pos, map) ==
    LET k == FindFirstNotOf(text, " ", pos)
        kEnd == IF FindFirstOf(text, " ", k) = NPOS THEN Len(text) ELSE FindFirstOf(text, " ", k)
        v == FindFirstNotOf(text, " ", kEnd)
        vEnd == IF FindFirstOf(text, " ", v) = NPOS THEN Len(text) ELSE FindFirstOf(text, " ", v)
        key == Substr(text, k, kEnd - k)
    IN  IF k = NPOS \/ v = NPOS THEN map
        ELSE StatusPairs(text, vEnd,
                 IF key \in DOMAIN map THEN map ELSE map @@ (key :> Substr(text, v, vEnd - v)))

\* The mailbox name of the line "* STATUS <mailbox> (...)".
StatusLineMailBox(line) ==
    LET from == Len(Untagged(kSTATUSStr) \o kSPACE)
    IN  Substr(line, from, FindFirstOf(line, " ", from) - from)

\* The entries of the "* STATUS" lines of the blob from position pos on.
RECURSIVE StatusEntries(_, _)
StatusEntries(pos, map) ==
    IF pos >= Len(blob) THEN map
    ELSE LET line == LineAt(blob, pos)
             open == FindFirstOf(line, "(", 0)
             list == Substr(line, open + 1, FindLastOf(line, ")") - open - 1)
         IN  StatusEntries(NextLine(pos),
                 IF StartsWith(line, Untagged(kSTATUSStr) \o kSPACE)
                 THEN StatusPairs(list, 0, map) ELSE map)

\* The positions of the "* STATUS" lines of the response.
StatusLines ==
    {p \in ResponseLineStarts : StartsWith(LineAt(blob, p), Untagged(kSTATUSStr) \o kSPACE)}

\* C14: a STATUS response that is returned for a blob with
\* "* STATUS <mailbox> (K1 V1 ... Kn Vn)" lines, n >= 0, names <mailbox> and
\* maps each Ki to Vi, and holds no other entry.
C14_StatusEntries ==
    (pc = "returned" /\ parseFn = "parseSTATUS" /\ StatusLines # {}) =>
        /\ \E p \in StatusLines : resp.mailBoxNameStr = StatusLineMailBox(LineAt(blob, p))
        /\ resp.responseMap = StatusEntries(NextLine(0), EmptyMap)

\* The trailing token of a LIST/LSUB line: a quoted name with its quotes, or
\* the atom after the last blank.
TrailingMailBoxName(line) ==
    IF At(line, Len(line) - 1) = "\""
    THEN SubstrFrom(line, FindLastOf(PopBack(line), "\""))
    ELSE SubstrFrom(line, FindLastOf(line, " ") + 1)

\* The mailbox names of the "* LIST" and "* LSUB" lines of the blob from
\* position pos on.
RECURSIVE ListedNames(_)
ListedNames(pos) ==
    IF pos >= Len(blob) THEN <<>>
    ELSE LET line == LineAt(blob, pos)
         IN  (IF \/ StartsWith(line, Untagged(kLISTStr) \o kSPACE)
                 \/ StartsWith(line, Untagged(kLSUBStr) \o kSPACE)
              THEN <<TrailingMailBoxName(line)>>
              ELSE <<>>) \o ListedNames(NextLine(pos))

\* C15: a LIST/LSUB response that is returned holds one entry per untagged
\* LIST/LSUB line, in blob order, whose mailbox name is the trailing token of
\* the line: a quoted name with both quotes, an atom as exactly that token.
C15_ListNames ==
    (pc = "returned" /\ parseFn = "parseLIST") =>
        /\ Len(resp.mailBoxList) = Len(ListedNames(NextLine(0)))
        /\ \A i \in 1..Len(resp.mailBoxList) :
              resp.mailBoxList[i].mailBoxNameStr = ListedNames(NextLine(0))[i]

\* The path without its last index: the place of the parent.
ParentPath(path) == SubSeq(path, 1, Len(path) - 1)

\* C16: in every tree consructBodyStructTree builds, the partNo of a child
\* part is its parent's partNo, a '.' and the child's 1-based index, or the
\* index alone for a child of the root; hence no two parts share a partNo.
C16_PartNoOfChild ==
    /\ \A part \in bodyStruct.bodyParts : part.path # <<>> =>
          \E parent \in bodyStruct.bodyParts :
              /\ parent.path = ParentPath(part.path)
              /\ parent.child
              /\ part.partNo = IF parent.path = <<>>
                               THEN to_string(part.path[Len(part.path)])
                               ELSE parent.partNo \o "." \o to_string(part.path[Len(part.path)])
    /\ \A p1, p2 \in bodyStruct.bodyParts : p1.partNo = p2.partNo => p1 = p2

\* C16 witness: a tree is built whose second part is a multipart with a
\* second child, numbered 2.2.
C16_NestedPartBuilt ==
    /\ bodyStruct.pc = "built"
    /\ \E part \in bodyStruct.bodyParts : part.path = <<2, 2>> /\ part.partNo = "2.2"

\* C17: decoding the Base64 encoding of a byte string gives the byte string
\* back, and the encoding is the padded form of RFC 4648: four characters for
\* every three bytes begun, of which the last two are "==" after one odd
\* byte, the last one is "=" after two, and none is "=" otherwise.
C17_Base64RoundTrip ==
    LET bytes == Len(codec.deocdedString)
        text == codec.encodedString
        pads == Cardinality({i \in 0..(Len(text) - 1) : At(text, i) = kBase64Pad})
    IN  /\ codec.pc \in {"decode", "done"} =>
              /\ Len(text) = 4 * ((bytes + 2) \div 3)
              /\ pads = (3 - (bytes % 3)) % 3
              /\ SubstrFrom(text, Len(text) - pads) \in {"", "=", "=="}
        /\ codec.pc = "done" => codec.redecodedString = codec.deocdedString

\* C17 witness: the one byte 'a' is encoded as "YQ==" and decoded back.
C17_OneByteRoundTrip ==
    /\ codec.pc = "done"
    /\ codec.deocdedString = <<97>>
    /\ codec.encodedString = "YQ=="
    /\ codec.redecodedString = <<97>>

\* C18: while one response is parsed bBYESent never goes from true to false,
\* whatever line is handled next, and a "* BYE" line handled by parseStatus
\* (the only branch that stores an untagged BYE line as errorMessageStr)
\* leaves it true.
C18_ByeSeenMonotonic ==
    [][/\ resp.bBYESent => resp'.bBYESent
       /\ IsUntaggedBYE(resp'.errorMessageStr) => resp'.bBYESent]_vars

\* C18 witness: a response other than LOGOUT's is returned with bBYESent set
\* by a "* BYE" line that a tagged NO line followed.
C18_ByeKeptAfterTaggedNO ==
    /\ pc = "returned"
    /\ parseFn # "parseLOGOUT"
    /\ resp.bBYESent
    /\ resp.status = "NO"
    /\ IsTaggedNO(tagStr, resp.errorMessageStr)
    /\ \E i \in ResponseLineStarts : IsUntaggedBYE(LineAt(blob, i))

\* What is left of a parseFETCH call: the bytes of the blob not yet read,
\* then the length of the line in hand, then whether the item just parsed
\* still waits for the look at what follows it.
FetchMeasure ==
    (Len(blob) - stream.pos) * (2 * Len(blob) + 2) + 2 * Len(lineStr)
    + (IF pc = "advance" THEN 1 ELSE 0)

\* C19: parseFETCH terminates on every blob.  What is left of the call is a
\* natural number, and every step of its line loop and of its item loop
\* either ends the call (return or exception) or makes it smaller, by reading
\* from the blob or by shortening the line in hand, so that no call goes on
\* for ever; the item chain always takes one of its branches; and a message
\* is closed only at a ")".
C19_FetchTerminates ==
    [][(parseFn = "parseFETCH" /\ pc \in {"lines", "item", "advance"}) =>
          /\ FetchMeasure >= 0
          /\ pc' \in {"returned", "thrown"} \/ FetchMeasure' < FetchMeasure
          /\ pc = "item" =>
                 FetchItem(lineStr).parser \in {"list", "string", "number", "octets", "none"}
          /\ (pc = "advance" /\ pc' = "lines") => At(lineStr', 0) = ")"]_vars

\* C19 witness: parseFETCH has thrown on a blob that ends inside a literal,
\* the octet count being larger than what is left of the blob.
C19_ThrownInsideLiteral ==
    /\ pc = "thrown"
    /\ parseFn = "parseFETCH"
    /\ stream.fail
    /\ \E i \in ResponseLineStarts :
          /\ Find(LineAt(blob, i), "{30}", 0) # NPOS
          /\ Len(blob) - NextLine(i) < 30

\* A step of parseFETCH in which parseOctets stores a literal.
OctetsStored ==
    /\ parseFn = "parseFETCH"
    /\ pc = "item"
    /\ FetchItem(lineStr).parser = "octets"
    /\ pc' = "advance"

\* The item token the line in hand starts with, and the text of the blob
\* from that token to the end of its line, "\r\n" left out.
ItemToken20 == Substr(lineStr, 0, FindFirstOf(lineStr, " ", 0))

ItemLineText ==
    LET length == Len(StripCR(lineStr))
    IN  Substr(blob, stream.pos - Len(kEOLStr) - length, length)

TypedPart(r) == [r EXCEPT !.rawResponse = <<>>, !.errorMessageStr = ""]

\* The upper-case text of every form is parsed to the typed response of the
\* form.
UpperCaseParsed ==
    \A form \in CaseForms :
        (blob = form.upper /\ pc \in {"returned", "thrown"}) =>
            (pc = "returned" /\ TypedPart(resp) = form.typed)

\* C21: a response whose protocol tokens are in lower or mixed case is
\* parsed to the same typed response as its upper-case form.
C21_SameAsUpperCase ==
    /\ UpperCaseParsed
    /\ \A form \in CaseForms :
          (blob = form.lower /\ pc \in {"returned", "thrown"}) =>
              (pc = "returned" /\ TypedPart(resp) = form.typed)

\* C22: a SELECT / EXAMINE response returned with status OK has as mailbox
\* access string the bracketed qualifier of a tagged OK line of the blob; no
\* other line sets or overwrites it.
C22_AccessFromTaggedOK ==
    (pc = "returned" /\ parseFn = "parseSELECT" /\ resp.status = "OK") =>
        \E i \in ResponseLineStarts :
            /\ IsTaggedOK(tagStr, LineAt(blob, i))
            /\ resp.mailBoxAccessStr = stringBetween(LineAt(blob, i), "[", "]")

\* The watch thread is between two inotify events, or has left watch().
WatchAtRest == apprise.pc["watch"] \in {"loop", "read", "returned", "escaped"}

\* Whether, before the i-th inotify event read, the path of that event had
\* an IN_CREATE with no IN_CLOSE_WRITE after it.
CreatedNotClosed(read, i) ==
    \E j \in 1..(i - 1) :
        /\ read[j].mask = "IN_CREATE"
        /\ read[j].name = read[i].name
        /\ \A k \in (j + 1)..(i - 1) :
              ~(read[k].mask = "IN_CLOSE_WRITE" /\ read[k].name = read[i].name)

\* The Event_add and Event_change events the protocol of file creation asks
\* for the i-th inotify event read.
ProtocolEvents(read, i) ==
    CASE read[i].mask = "IN_MODIFY" ->
            IF CreatedNotClosed(read, i) THEN <<>> ELSE <<Event("Event_change", read[i].name)>>
      [] read[i].mask = "IN_CLOSE_WRITE" ->
            IF CreatedNotClosed(read, i) THEN <<Event("Event_add", read[i].name)>>
            ELSE <<Event("Event_change", read[i].name)>>
      [] read[i].mask = "IN_MOVED_TO" -> <<Event("Event_add", read[i].name)>>
      [] OTHER -> <<>>

RECURSIVE ProtocolQueue(_, _)
ProtocolQueue(read, n) ==
    IF n = 0 THEN <<>> ELSE ProtocolQueue(read, n - 1) \o ProtocolEvents(read, n)

AddsAndChanges(events) ==
    SelectSeq(events, LAMBDA evt : evt.id \in {"Event_add", "Event_change"})

\* C23: between two inotify events the Event_add and Event_change events
\* queued so far are those of the file-creation protocol: IN_CLOSE_WRITE of
\* a path after its IN_CREATE queues one Event_add, IN_MODIFY in between
\* queues nothing, IN_MODIFY and IN_CLOSE_WRITE of a path that is not being
\* created queue Event_change.
C23_CreationProtocol ==
    WatchAtRest =>
        AddsAndChanges(apprise.sent) = ProtocolQueue(apprise.inotify, Len(apprise.inotify))

\* C23 witness: a file is created, modified, closed and modified again; one
\* Event_add and one Event_change were queued for it.
C23_CreatedThenChanged ==
    /\ WatchAtRest
    /\ [i \in 1..Len(apprise.inotify) |-> apprise.inotify[i].mask]
          = <<"IN_CREATE", "IN_MODIFY", "IN_CLOSE_WRITE", "IN_MODIFY">>
    /\ \A i \in 1..Len(apprise.inotify) : apprise.inotify[i].name = "w/f"
    /\ apprise.sent = <<Event("Event_add", "w/f"), Event("Event_change", "w/f")>>

\* The events getEvent calls have returned so far, in the order of return.
Returned == [i \in 1..Len(apprise.got) |-> apprise.got[i].evt]

Events(evts) == SelectSeq(evts, LAMBDA evt : evt.id # "Event_none")

\* C24: the events returned by getEvent calls, in the order of return,
\* followed by the events still in the queue are the events sendEvent has
\* queued, in the order they were queued (none lost, none returned twice);
\* and a getEvent call returns Event_none only from a state in which the
\* queue is empty and bDoWork is false.
C24_QueueIsFifo ==
    /\ [](Events(Returned) \o apprise.queuedEvents = apprise.sent)
    /\ [][(Len(apprise'.got) > Len(apprise.got)
             /\ apprise'.got[Len(apprise'.got)].evt.id = "Event_none")
          => (apprise.queuedEvents = <<>> /\ ~apprise.bDoWork)]_vars

\* C24 witness: two events were returned, to two different threads, in the
\* order they were queued, and then a call returned Event_none.
C24_TwoConsumersServed ==
    /\ Len(apprise.got) >= 3
    /\ Len(apprise.sent) = 2
    /\ apprise.got[1].thread # apprise.got[2].thread
    /\ apprise.got[1].evt = apprise.sent[1]
    /\ apprise.got[2].evt = apprise.sent[2]
    /\ apprise.got[3].evt.id = "Event_none"

InGetEvent(c) == apprise.pc[c] \in {"run", "locked", "waiting"}

WantsMutex(t) == apprise.pc[t] = "run" /\ Head(apprise.todo[t]).op \in LockOps

\* C25: once stop() has cleared bDoWork every thread inside getEvent
\* eventually returns, and a thread that wants queuedEventsMutex eventually
\* gets it.
C25_WaitersReturn ==
    /\ \A c \in Consumers : (~apprise.bDoWork /\ InGetEvent(c)) ~> ~InGetEvent(c)
    /\ \A t \in Threads : WantsMutex(t) ~> (apprise.pc[t] = "locked")

\* The step that is the body of removeWatch, called by the user.
UserRemoveStep ==
    /\ apprise.pc["user"] = "run"
    /\ Head(apprise.todo["user"]).op = "removeWatch"
    /\ apprise'.todo["user"] # apprise.todo["user"]

StopStep(t) ==
    /\ apprise.pc[t] = "locked"
    /\ Head(apprise.todo[t]).op = "stop"
    /\ apprise'.pc[t] # "locked"

\* C26: removeWatchFile(p) leaves no entry for p (p without its trailing
\* '/') in the watch map and keeps every entry of another path; when it
\* leaves the map empty the thread goes on to stop(), and stop() clears
\* bDoWork.
C26_RemoveExactlyThePath ==
    /\ [][UserRemoveStep =>
            LET fileName == StripSlash(Head(apprise.todo["user"]).message)
                before == apprise.watchMap
                after == apprise'.watchMap
            IN  /\ \A wd \in DOMAIN after : after[wd] # fileName
                /\ \A wd \in DOMAIN before :
                      before[wd] # fileName => (wd \in DOMAIN after /\ after[wd] = before[wd])
                /\ (DOMAIN after = {} /\ apprise'.userThrown = "")
                      => (apprise'.todo["user"] # <<>>
                             /\ Head(apprise'.todo["user"]).op = "stop")]_vars
    /\ [][\A t \in Threads : StopStep(t) => ~apprise'.bDoWork]_vars

ErrorEvents == SelectSeq(apprise.sent, LAMBDA evt : evt.id = "Event_error")

\* C27: no exception leaves watch(); and once the handler of watch() has
\* queued an Event_error, watch() ends returned with bDoWork false and
\* thrownException holding the exception of that event.
C27_ErrorIsHandled ==
    /\ apprise.pc["watch"] # "escaped"
    /\ (apprise.pc["watch"] = "returned" /\ ErrorEvents # <<>>)
          => (/\ ~apprise.bDoWork
              /\ Len(ErrorEvents) = 1
              /\ apprise.thrownException = ErrorEvents[1].message)

\* The turn of getFiles' loop that has just been taken, for a file that is
\* no directory.
GetFilesTransferred ==
    /\ transfer.call = "getFiles"
    /\ Len(transfer'.transfers) = Len(transfer.transfers) + 1

\* C28: in safe mode every transfer goes to the destination name plus the
\* postfix; a transfer that did not return 226 leaves the file's final
\* destination as it was, and the final destination is replaced only by the
\* data of a transfer that returned 226; a file that is no directory is in
\* the returned list only if a transfer of it returned 226.
C28_SafeModeKeepsDestination ==
    /\ [][(GetFilesTransferred /\ transfer.safe) =>
            LET done == transfer'.transfers[Len(transfer'.transfers)]
                destination == Destination(transfer.localDirectory, done.file)
            IN  /\ done.localFilePath = destination \o kPostFix
                /\ done.statusCode # 226 => transfer'.local[destination] = transfer.local[destination]
                /\ done.statusCode = 226 => transfer'.local[destination] = "new:" \o done.file]_vars
    /\ []((transfer.call = "getFiles" /\ transfer.safe) =>
            \A i \in 1..Len(transfer.successList) :
               ~isDirectory(transfer.successList[i]) =>
                  \E j \in 1..Len(transfer.transfers) :
                     /\ transfer.transfers[j].file = transfer.successList[i]
                     /\ transfer.transfers[j].statusCode = 226)

\* C28 witness: in safe mode the transfer of a failed and left a part of the
\* data in l/a~, the older l/a is still there; then a~ was transferred and
\* renamed, and only a~ is in the returned list.
C28_FailedTransferKeptOldFile ==
    /\ transfer.call = "getFiles"
    /\ transfer.safe
    /\ transfer.pc = "returned"
    /\ transfer.transfers = <<[file |-> "a", localFilePath |-> "l/a~", statusCode |-> 550],
                              [file |-> "a~", localFilePath |-> "l/a~~", statusCode |-> 226]>>
    /\ transfer.local["l/a"] = "old"
    /\ transfer.local["l/a~"] = "new:a~"
    /\ transfer.successList = <<"a~">>

\* C29: for every upload of putFiles that completed, the entry appended to
\* successList is the path the file has on the server, which is a file of
\* the server; completionFn was called with each entry of the list, in order.
C29_EntryIsRemotePath ==
    transfer.call = "putFiles" =>
        /\ \A i \in 1..Len(transfer.uploads) :
              /\ transfer.uploads[i].entry = transfer.uploads[i].remotePath
              /\ transfer.uploads[i].remotePath \in transfer.remoteFiles
        /\ transfer.completed = transfer.successList

\* C30: a getFile call returns in the end, it returns only with exactly
\* size bytes written to the local file, and its counter fileSize never
\* passes below zero.
C30_GetFileTerminates ==
    /\ [](transfer.call = "getFile" => <>(transfer.pc = "returned"))
    /\ []((transfer.call = "getFile" /\ transfer.pc = "returned")
             => transfer.written = transfer.size)
    /\ [](transfer.call = "getFile" => transfer.fileSize >= 0)

=============================================================================
